---- MODULE Spec2Model ----
\* Verification model of varon-fi/signal-service:
\*   StrategyEngine (strategy/engine.py), the built-in strategies
\*   (strategy/*.py), ExecutionServiceClient (grpc/execution_client.py),
\*   SignalServiceServer / SignalServiceImpl (grpc/server.py) and the
\*   per-timeframe consumer stream_for_timeframe (main.py).
\*
\* Coroutines are cut at their await points: everything a coroutine does
\* between two suspensions is one atomic action (asyncio runs one task at a
\* time on one thread).
EXTENDS Integers, Sequences, FiniteSets, TLC

\* ---------------------------------------------------------------------------
\* Bounds of the model
\* ---------------------------------------------------------------------------
MaxTs == 4          \* candle timestamps (seconds) range over 1..MaxTs
MaxNanos == 0       \* nanos part of a protobuf Timestamp ranges over 0..MaxNanos
MaxCandles == 3     \* candles delivered by the upstream streams in one run
MaxReloads == 1     \* reload_strategies calls in one run
MaxNow == 2         \* wall clock ticks (minutes) in one run
MaxAppends == 1     \* bars the data service appends to the catalog in one run
MaxSubs == 2        \* StreamSignals subscriptions opened in one run
MaxPublish == 2     \* PublishSignal / direct emit_signal calls in one run
MaxCalls == 3       \* direct on_candle calls on one strategy instance
MaxPrice == 2       \* close prices of directly presented candles: 1..MaxPrice
MaxClose == 1       \* close prices of streamed candles: 1..MaxClose
MaxRetriesArg == 3  \* largest max_retries a client is constructed with
MaxDelayArg == 2    \* largest retry_delay a client is constructed with
MaxExecCalls == 2   \* direct execute_signal calls in one run

\* ---------------------------------------------------------------------------
\* Program constants
\* ---------------------------------------------------------------------------
DefaultMaxRetries == 3
DefaultRetryDelay == 1
HistoryFloor == 200
DayLen == 4
SessionStart == 1
SessionEnd == 3
LookbackPeriods == 2880
MaxHoldTicks == 2
MomentumPeriods == 192

Symbols == {"BTC", "ETH"}
Timeframes == {"5m", "15m"}
Combos == Symbols \X Timeframes

Min(a, b) == IF a < b THEN a ELSE b
Max(a, b) == IF a > b THEN a ELSE b
Max3(a, b, c) == Max(a, Max(b, c))

RECURSIVE SumTo(_)
SumTo(n) == IF n <= 0 THEN 0 ELSE n + SumTo(n - 1)

RECURSIVE SumSeq(_)
SumSeq(s) == IF s = <<>> THEN 0 ELSE Head(s) + SumSeq(Tail(s))

\* ---------------------------------------------------------------------------
\* The catalog: strategy rows, instruments, bars
\* ---------------------------------------------------------------------------
\* Rows of the strategies table with status = 'active', in the order the
\* query returns them.
Rows ==
  << [id |-> "A", name |-> "momentum", symbols |-> {"BTC", "ETH"},
      timeframes |-> {"5m"}, init_periods |-> 0, mode |-> "paper"],
     [id |-> "B", name |-> "mtf_confluence", symbols |-> {"BTC"},
      timeframes |-> {"5m", "15m"}, init_periods |-> 50, mode |-> "live"] >>

RowIds == {Rows[i].id : i \in 1..Len(Rows)}
Row(id) == Rows[CHOOSE i \in 1..Len(Rows) : Rows[i].id = id]

\* names registered by signal_service.strategy (strategy/__init__.py)
StrategyNames ==
  {"mtf_confluence", "volatility_expansion", "volume_range_breakout",
   "momentum", "atr_breakout", "low_vol_momentum"}

\* the symbols of the instruments table when the service starts
Instruments == {"BTC", "ETH"}

Key(sid, sym, tf) == <<sid, sym, tf>>
KeysOf(id) == {Key(id, s, t) : s \in Row(id).symbols, t \in Row(id).timeframes}


\* ---------------------------------------------------------------------------
\* Timestamps
\* ---------------------------------------------------------------------------
\* A candle carries a protobuf Timestamp {seconds, nanos} (grpc/client.py
\* copies ohlc.timestamp into the dict).  _normalize_candle_ts takes the
\* hasattr(seconds)/hasattr(nanos) branch: datetime.fromtimestamp(ts.seconds),
\* so the nanos are dropped.
NoTs == 0
\* The absent timestamp (None) is the raw value with seconds = NoTs.
normalize_candle_ts(ts) == ts.seconds

RawTs == [seconds : 1..MaxTs, nanos : 0..MaxNanos]

\* strict order on raw timestamps
RawBefore(a, b) ==
  \/ a.seconds < b.seconds
  \/ a.seconds = b.seconds /\ a.nanos < b.nanos

\* dt.time() of a normalized instant
TimeOfDay(secs) == secs % DayLen

\* _in_session of the strategies that fix session_start/session_end in
\* __init__ (mtf_confluence, momentum, atr_breakout, volatility_expansion,
\* volume_range_breakout): session_start <= ts.time() <= session_end
InSessionWindow(secs) ==
  SessionStart <= TimeOfDay(secs) /\ TimeOfDay(secs) <= SessionEnd

\* low_vol_momentum reads session_start/session_end from params; the rows of
\* this model give none, so its _in_session returns True.
HasSessionWindow(name) == name # "low_vol_momentum"

in_session(name, secs) ==
  IF HasSessionWindow(name) THEN InSessionWindow(secs) ELSE TRUE

\* ---------------------------------------------------------------------------
\* Strategy instances: on_candle
\* ---------------------------------------------------------------------------
\* The indicator mathematics is abstracted into the inputs `ind`:
\*   trend  : the higher-timeframe trend of mtf_confluence (bull/bear/none)
\*   entry  : which entry condition the candle and history satisfy
\*   regime : the volatility regime low_vol_momentum computes from a full
\*            lookback window
\* Prices are levels 1..MaxPrice, far enough apart that a lower level breaches
\* the stop of a long entered at a higher one (0.5% for mtf_confluence,
\* stop_loss_pct = 2% for low_vol_momentum).
Inds == [trend : {"bull", "bear", "none"},
         entry : {"none", "long", "short"},
         regime : {"low", "mid", "high"}]

\* what the indicators make of the streamed candles: an entry setup in a bull
\* trend, a bear trend without a setup, or nothing
StreamInds ==
  {[trend |-> "bull", entry |-> "long", regime |-> "low"],
   [trend |-> "bear", entry |-> "none", regime |-> "low"],
   [trend |-> "none", entry |-> "none", regime |-> "low"]}

Prices == 1..MaxPrice
\* close prices of the candles the upstream streams deliver
Closes == 1..MaxClose

Flat == [side |-> "flat", entry_price |-> 0, entry_ts |-> 0]
PosKeys == Symbols \cup {"self"}
NoPositions == [k \in PosKeys |-> Flat]

NoSignal(pos) == [side |-> "none", exit_reason |-> "", pos |-> pos]

MinBars(name) ==
  CASE name = "mtf_confluence" -> 200
    [] name = "atr_breakout" -> 100
    [] name = "low_vol_momentum" -> 28
    [] OTHER -> 50

\* momentum, atr_breakout, volatility_expansion, volume_range_breakout:
\* no position state; long_cond is tested before short_cond.
StatelessEntry(ind) == ind.entry

StatelessOnCandle(name, pos, candle, histLen, ind) ==
  IF histLen < MinBars(name) THEN NoSignal(pos)
  ELSE IF ~in_session(name, candle.ts.seconds) THEN NoSignal(pos)
  ELSE IF StatelessEntry(ind) = "none" THEN NoSignal(pos)
  ELSE [side |-> StatelessEntry(ind), exit_reason |-> "", pos |-> pos]

\* mtf_confluence: one _position_side / _entry_price per instance.
MtfStopHit(p, close) ==
  IF p.side = "long" THEN p.entry_price # 0 /\ close < p.entry_price
  ELSE p.entry_price # 0 /\ close > p.entry_price

MtfTrendReversed(p, ind) ==
  IF p.side = "long" THEN ind.trend = "bear" ELSE ind.trend = "bull"

\* an exit that returns its signal without clearing the position
MtfExitKeepsPosition(pos, candle, histLen, ind) ==
  LET p == pos["self"] IN
  IF histLen < MinBars("mtf_confluence") THEN NoSignal(pos)
  ELSE IF ~in_session("mtf_confluence", candle.ts.seconds) THEN NoSignal(pos)
  ELSE IF p.side \in {"long", "short"} THEN
    IF MtfStopHit(p, candle.close) \/ MtfTrendReversed(p, ind)
    THEN [side |-> "flat",
          exit_reason |-> IF MtfStopHit(p, candle.close)
                          THEN "stop_loss" ELSE "trend_reversal",
          pos |-> pos]
    ELSE NoSignal(pos)
  ELSE IF ind.trend = "none" THEN NoSignal(pos)
  ELSE IF ind.trend = "bull" /\ ind.entry = "long" THEN
    [side |-> "long", exit_reason |-> "",
     pos |-> [pos EXCEPT !["self"] =
                [side |-> "long", entry_price |-> candle.close, entry_ts |-> 0]]]
  ELSE IF ind.trend = "bear" /\ ind.entry = "short" THEN
    [side |-> "short", exit_reason |-> "",
     pos |-> [pos EXCEPT !["self"] =
                [side |-> "short", entry_price |-> candle.close, entry_ts |-> 0]]]
  ELSE NoSignal(pos)

MtfOnCandle(pos, candle, histLen, ind) ==
  LET p == pos["self"] IN
  IF histLen < MinBars("mtf_confluence") THEN NoSignal(pos)
  ELSE IF ~in_session("mtf_confluence", candle.ts.seconds) THEN NoSignal(pos)
  ELSE IF p.side \in {"long", "short"} THEN
    IF MtfStopHit(p, candle.close) \/ MtfTrendReversed(p, ind)
    THEN [side |-> "flat",
          exit_reason |-> IF MtfStopHit(p, candle.close)
                          THEN "stop_loss" ELSE "trend_reversal",
          pos |-> [pos EXCEPT !["self"] = Flat]]
    ELSE NoSignal(pos)
  ELSE IF ind.trend = "none" THEN NoSignal(pos)
  ELSE IF ind.trend = "bull" /\ ind.entry = "long" THEN
    [side |-> "long", exit_reason |-> "",
     pos |-> [pos EXCEPT !["self"] =
                [side |-> "long", entry_price |-> candle.close, entry_ts |-> 0]]]
  ELSE IF ind.trend = "bear" /\ ind.entry = "short" THEN
    [side |-> "short", exit_reason |-> "",
     pos |-> [pos EXCEPT !["self"] =
                [side |-> "short", entry_price |-> candle.close, entry_ts |-> 0]]]
  ELSE NoSignal(pos)

\* low_vol_momentum: _positions keyed by candle["symbol"].
\* _get_vol_regime answers "unknown" without a full lookback window.
VolRegime(histLen, ind) ==
  IF histLen < LookbackPeriods THEN "unknown" ELSE ind.regime

Opposite(side) == IF side = "long" THEN "short" ELSE "long"

LowVolStopHit(p, close) ==
  IF p.side = "long" THEN close < p.entry_price ELSE close > p.entry_price

\* an exit logic that tests the holding time before the stop
LowVolHoldFirst(pos, candle, histLen, ind) ==
  LET key == candle.symbol
      p == pos[key]
      ts == normalize_candle_ts(candle.ts)
      regime == VolRegime(histLen, ind)
      exit(reason) == [side |-> Opposite(p.side), exit_reason |-> reason,
                       pos |-> [pos EXCEPT ![key] = Flat]]
  IN
  IF ~in_session("low_vol_momentum", candle.ts.seconds) THEN NoSignal(pos)
  ELSE IF p.side # "flat" THEN
    IF ts - p.entry_ts >= MaxHoldTicks THEN exit("max_hold")
    ELSE IF LowVolStopHit(p, candle.close) THEN exit("stop_loss")
    ELSE IF regime \notin {"unknown", "low"} THEN exit("regime_change")
    ELSE NoSignal(pos)
  ELSE IF histLen < MinBars("low_vol_momentum") THEN NoSignal(pos)
  ELSE IF regime # "low" THEN NoSignal(pos)
  ELSE IF histLen < MomentumPeriods THEN NoSignal(pos)
  ELSE IF ind.entry = "none" THEN NoSignal(pos)
  ELSE [side |-> ind.entry, exit_reason |-> "",
        pos |-> [pos EXCEPT ![key] =
                   [side |-> ind.entry, entry_price |-> candle.close,
                    entry_ts |-> ts]]]

LowVolOnCandle(pos, candle, histLen, ind) ==
  LET key == candle.symbol
      p == pos[key]
      ts == normalize_candle_ts(candle.ts)
      regime == VolRegime(histLen, ind)
      exit(reason) == [side |-> Opposite(p.side), exit_reason |-> reason,
                       pos |-> [pos EXCEPT ![key] = Flat]]
  IN
  IF ~in_session("low_vol_momentum", candle.ts.seconds) THEN NoSignal(pos)
  ELSE IF p.side # "flat" THEN
    IF LowVolStopHit(p, candle.close) THEN exit("stop_loss")
    ELSE IF ts - p.entry_ts >= MaxHoldTicks THEN exit("max_hold")
    ELSE IF regime \notin {"unknown", "low"} THEN exit("regime_change")
    ELSE NoSignal(pos)
  ELSE IF histLen < MinBars("low_vol_momentum") THEN NoSignal(pos)
  ELSE IF regime # "low" THEN NoSignal(pos)
  ELSE IF histLen < MomentumPeriods THEN NoSignal(pos)
  ELSE IF ind.entry = "none" THEN NoSignal(pos)
  ELSE [side |-> ind.entry, exit_reason |-> "",
        pos |-> [pos EXCEPT ![key] =
                   [side |-> ind.entry, entry_price |-> candle.close,
                    entry_ts |-> ts]]]

\* strategy.on_candle(candle, history), dispatched on the registered name
on_candle(name, pos, candle, histLen, ind) ==
  CASE name = "mtf_confluence" -> MtfOnCandle(pos, candle, histLen, ind)
    [] name = "low_vol_momentum" -> LowVolOnCandle(pos, candle, histLen, ind)
    [] OTHER -> StatelessOnCandle(name, pos, candle, histLen, ind)

IsEntry(r) == r.side \in {"long", "short"} /\ r.exit_reason = ""
IsExit(r) == r.exit_reason # ""


\* ---------------------------------------------------------------------------
\* State
\* ---------------------------------------------------------------------------
VARIABLES
  strategies,         \* engine.strategies: ids in dict insertion order
  gen,                \* generation of the loaded instances (one per load)
  warmup_required,    \* engine._warmup_required
  warmup_complete,    \* engine._warmup_complete
  last_candle_ts,     \* engine._last_candle_ts
  startup_latest_ts,  \* engine._startup_latest_ts
  execution_client,   \* engine.execution_client is not None
  max_retries,        \* ExecutionServiceClient.max_retries
  retry_delay,        \* ExecutionServiceClient.retry_delay
  position,           \* position state of every strategy instance
  catalogBars,        \* catalog: number of ohlcs rows per (symbol, timeframe)
  catalogLatest,      \* catalog: MAX(ts) of ohlcs per (symbol, timeframe)
  instruments,        \* catalog: symbols of the instruments table
  signals,            \* catalog: rows of the signals table
  orders,             \* the OrderRequests sent to the execution endpoint
  forwarded,          \* history: keys of the signals handed to execute_signal
  failedForward,      \* history: keys of those whose execute_signal call raised
  subscribers,        \* server._subscribers: (queue, request) entries
  streams,            \* per StreamSignals call: its request, what it dequeued and yielded
  task,               \* the stream_for_timeframe task of each timeframe
  ex,                 \* the execute_signal call of each task
  reload,             \* position of the reload_strategies coroutine
  startupRun,         \* the running (or last) _initialize_startup_state: the combos
                      \* still to query, the history lengths its priming fetched
  nextKey,            \* source of fresh uuid4 values
  now,                \* wall clock (minutes)
  onCandleLog,        \* history: the on_candle invocations of each key, in order
  engineStartTs,      \* history: startup_latest_ts as initialize() left it
  returned,           \* history: what direct on_candle calls returned, in order
  mainRun,            \* main(): the strategies table it started from, its position,
                      \* its subscriptions, tasks, server and the engine's pool
  counts              \* history: how often each bounded input has happened

vars == <<strategies, gen, warmup_required, warmup_complete, last_candle_ts,
          startup_latest_ts, execution_client, max_retries, retry_delay,
          position, catalogBars, catalogLatest, instruments, signals, orders,
          forwarded, failedForward, subscribers, streams, task, ex, reload,
          startupRun, nextKey, now, onCandleLog, engineStartTs, returned,
          mainRun, counts>>

loadVars == <<strategies, gen, warmup_required, warmup_complete,
              startup_latest_ts>>
engineVars == <<loadVars, last_candle_ts>>
clientVars == <<execution_client, max_retries, retry_delay>>
catalogVars == <<catalogBars, catalogLatest, instruments>>
hubVars == <<subscribers, streams>>

\* Python dicts as functions with an explicit domain
EmptyDict == [k \in {} |-> 0]
Get(d, k, default) == IF k \in DOMAIN d THEN d[k] ELSE default
Put(d, k, v) == [x \in (DOMAIN d) \cup {k} |-> IF x = k THEN v ELSE d[x]]

Instances == RowIds \X (0..MaxReloads)

\* ---------------------------------------------------------------------------
\* StrategyEngine: loading (engine.py _load_strategies, _initialize_startup_state)
\* ---------------------------------------------------------------------------
\* the trading mode main() reads from SIGNALSERVICE_TRADING_MODE (default)
trading_mode == "live"

\* _create_strategy returns None for a name create_strategy does not know
Loadable(i) == Rows[i].name \in StrategyNames

RECURSIVE LoadedIdsFrom(_)
LoadedIdsFrom(i) ==
  IF i > Len(Rows) THEN <<>>
  ELSE IF Loadable(i) THEN <<Rows[i].id>> \o LoadedIdsFrom(i + 1)
  ELSE LoadedIdsFrom(i + 1)

\* self.strategies after _load_strategies
LoadedIds == LoadedIdsFrom(1)

SeqRange(q) == {q[i] : i \in 1..Len(q)}

LoadedKeys(ids) == UNION {KeysOf(id) : id \in SeqRange(ids)}

\* required = int(init_periods) if init_periods else 0
LoadedWarmupRequired(ids) ==
  [k \in LoadedKeys(ids) |-> Row(k[1]).init_periods]

\* every key starts pending, whatever its init_periods
LoadedWarmupAllPending(ids) ==
  [k \in LoadedKeys(ids) |-> FALSE]

\* self._warmup_complete[warmup_key] = (required == 0)
LoadedWarmupComplete(ids) ==
  [k \in LoadedKeys(ids) |-> Row(k[1]).init_periods = 0]

LoadedCombos(ids) == {<<k[2], k[3]>> : k \in LoadedKeys(ids)}

\* if row and row["ts"]: self._startup_latest_ts[...] = row["ts"]
RecordStartupTs(old, ids, latest) ==
  [c \in (DOMAIN old) \cup {c \in LoadedCombos(ids) : latest[c] # NoTs} |->
     IF c \in LoadedCombos(ids) /\ latest[c] # NoTs THEN latest[c] ELSE old[c]]

\* _calc_lookback_bars: the rows give no lookback_days
calc_lookback_bars(tf, sid) == 0

\* priming of warmup_complete from the history fetched at load
PrimeWarmup(complete, required, ids, bars) ==
  [k \in DOMAIN complete |->
     LET req == Get(required, k, 0)
         lb == calc_lookback_bars(k[3], k[1])
         needed == IF lb # 0 THEN Max(req, lb) ELSE req
     IN IF k \in LoadedKeys(ids) /\ needed > 0
        THEN Min(bars[<<k[2], k[3]>>], needed) >= req
        ELSE complete[k]]

\* the order in which the rows list their symbols and timeframes
SymbolOrder == <<"BTC", "ETH">>
TimeframeOrder == <<"15m", "5m">>

\* `combos` is a Python set of tuples: its iteration order is not fixed by
\* the program; the model takes this one
ComboOrder ==
  <<<<"BTC", "15m">>, <<"BTC", "5m">>, <<"ETH", "15m">>, <<"ETH", "5m">>>>

SelectIn(q, S) == SelectSeq(q, LAMBDA x : x \in S)

\* the combos of the loaded strategies, in the order they are queried
ComboSeq(ids) == SelectIn(ComboOrder, LoadedCombos(ids))

\* if row and row["ts"]: self._startup_latest_ts[f"{symbol}:{timeframe}"] = row["ts"]
RecordOneStartupTs(old, c, latest) ==
  IF latest[c] # NoTs THEN Put(old, c, latest[c]) ELSE old

\* bars_needed = max(required, lookback_bars) if lookback_bars else required
PrimeBarsNeeded(req, k) ==
  LET lb == calc_lookback_bars(k[3], k[1]) IN IF lb # 0 THEN Max(req, lb) ELSE req

\* the keys in the order of the priming loops: strategies.items(), then
\* strategy.symbols, then strategy.timeframes
KeySeq(ids) ==
  LET at(n) == Key(ids[((n - 1) \div 4) + 1],
                   SymbolOrder[(((n - 1) \div 2) % 2) + 1],
                   TimeframeOrder[((n - 1) % 2) + 1])
  IN SelectIn([n \in 1..(4 * Len(ids)) |-> at(n)], LoadedKeys(ids))

\* the keys the priming fetches history for (bars_needed > 0), in that order
PrimeSeq(ids, required) ==
  SelectSeq(KeySeq(ids), LAMBDA k : PrimeBarsNeeded(Get(required, k, 0), k) > 0)

\* the history lengths the priming of initialize() fetches on catalog bars
InitialPrimeLens(ids, bars) ==
  LET keys == PrimeSeq(ids, LoadedWarmupRequired(ids)) IN
  [n \in 1..Len(keys) |->
     Min(bars[<<keys[n][2], keys[n][3]>>],
         PrimeBarsNeeded(LoadedWarmupRequired(ids)[keys[n]], keys[n]))]

\* get_required_subscriptions, as main() reads it once after initialize()
SubscribedSymbols(tf) ==
  UNION {Row(id).symbols : id \in {x \in SeqRange(LoadedIds) : tf \in Row(x).timeframes}}

\* ---------------------------------------------------------------------------
\* StrategyEngine.process_candle: the gates (engine.py 262-286)
\* ---------------------------------------------------------------------------
RoutingPasses(sid, candle) ==
  candle.symbol \in Row(sid).symbols /\ candle.timeframe \in Row(sid).timeframes

\* a session gate that lets every candle through
SessionAlwaysPasses(sid, cts) == TRUE

\* _in_strategy_session: every built-in strategy provides _in_session
SessionPasses(sid, cts) ==
  cts = NoTs \/ in_session(Row(sid).name, cts)

\* the startup gate with < in place of <=
StartupAllowsEqual(startup_ts, cts) ==
  cts = NoTs \/ startup_ts = NoTs \/ cts >= startup_ts

\* startup_ts is not None and candle_ts <= startup_ts: continue
StartupPasses(startup_ts, cts) ==
  cts = NoTs \/ startup_ts = NoTs \/ cts > startup_ts

\* the dedupe gate with < in place of <=
DedupeAllowsEqual(last_ts, cts) ==
  cts = NoTs \/ last_ts = NoTs \/ cts >= last_ts

\* last_ts is not None and candle_ts <= last_ts: continue
DedupePasses(last_ts, cts) ==
  cts = NoTs \/ last_ts = NoTs \/ cts > last_ts

Gates(sid, candle) ==
  LET cts == normalize_candle_ts(candle.ts) IN
  /\ RoutingPasses(sid, candle)
  /\ SessionPasses(sid, cts)
  /\ StartupPasses(Get(startup_latest_ts, <<candle.symbol, candle.timeframe>>, NoTs), cts)
  /\ DedupePasses(Get(last_candle_ts, Key(sid, candle.symbol, candle.timeframe), NoTs), cts)

\* index of the first strategy at or after `from` that gets past the gates
\* to the history fetch; 0 when the loop runs out
Scan(from, candle) ==
  LET pass == {i \in from..Len(strategies) : Gates(strategies[i], candle)} IN
  IF pass = {} THEN 0 ELSE CHOOSE i \in pass : \A j \in pass : i <= j


\* ---------------------------------------------------------------------------
\* Values
\* ---------------------------------------------------------------------------
NoKey == 0
NoCandle == [symbol |-> "", timeframe |-> "",
             ts |-> [seconds |-> 0, nanos |-> 0], close |-> 0]
NoSig == [idempotency_key |-> NoKey, strategy_id |-> "", symbol |-> "",
          timeframe |-> "", side |-> "none", exit_reason |-> "",
          price |-> 0, mode |-> "", call |-> 0, at |-> 0]
NoOrder == [signal_id |-> NoKey, strategy_id |-> "", symbol |-> "",
            side |-> "", trace_key |-> NoKey, src |-> NoKey]

IdleTask == [pc |-> "idle", candle |-> NoCandle, idx |-> 0, size |-> 0,
             inst |-> <<"", 0>>, required |-> 0, sig |-> NoSig, call |-> 0,
             error |-> ""]

\* the task after an exception has left process_candle and, through the
\* `async for` of stream_for_timeframe, the task itself
Crashed(error) == [IdleTask EXCEPT !.pc = "crashed", !.error = error]
IdleEx == [pc |-> "idle", attempt |-> 0, attempts |-> 0, fails |-> 0, waits |-> <<>>,
           codes |-> <<>>,
           order |-> NoOrder]

\* ---------------------------------------------------------------------------
\* Conversions (engine.py _to_trade_signal, execution_client.py
\* _to_order_request, engine.py _persist_signal)
\* ---------------------------------------------------------------------------
\* TradeSignal(signal_id = signal.idempotency_key, ...,
\*             trace = TraceContext(idempotency_key = signal.idempotency_key))
\* `src` is history: the key of the Signal the message was built from.
to_trade_signal(sig) ==
  [signal_id |-> sig.idempotency_key, strategy_id |-> sig.strategy_id,
   symbol |-> sig.symbol, side |-> sig.side,
   trace_key |-> sig.idempotency_key, src |-> sig.idempotency_key]

\* _to_order_request reads signal.idempotency_key of the TradeSignal, a field
\* _to_trade_signal never sets: where the message type has the field it reads
\* as the empty string.
TradeSignalIdempotencyKey(tsig) == NoKey

convert_side(side) ==
  CASE side = "buy" -> "long" [] side = "sell" -> "short" [] OTHER -> side

\* idempotency_key = signal.idempotency_key if signal.idempotency_key
\*                   else str(uuid.uuid4())
to_order_request(tsig, fresh) ==
  [signal_id |-> tsig.signal_id, strategy_id |-> tsig.strategy_id,
   symbol |-> tsig.symbol, side |-> convert_side(tsig.side),
   trace_key |-> IF TradeSignalIdempotencyKey(tsig) # NoKey
                 THEN TradeSignalIdempotencyKey(tsig) ELSE fresh,
   src |-> tsig.src]

\* signal.side.upper() if signal.side else "UNKNOWN"
signal_type(side) ==
  CASE side = "long" -> "LONG"
    [] side = "short" -> "SHORT"
    [] side = "flat" -> "FLAT"
    [] OTHER -> "UNKNOWN"

\* the row _persist_signal inserts
signal_row(sig) ==
  [idempotency_key |-> sig.idempotency_key, strategy_id |-> sig.strategy_id,
   symbol |-> sig.symbol, signal_type |-> signal_type(sig.side), mode |-> sig.mode,
   call |-> sig.call, at |-> sig.at]

\* _persist_signal gone wrong: the write is not made before the call returns
persist_signal_skipped(rows, sig) == rows

\* the signals table after `await self._persist_signal(signal, candle)`: the
\* row is inserted unless the instrument lookup finds nothing
persist_signal(rows, sig) ==
  IF sig.symbol \in instruments THEN rows \cup {signal_row(sig)} ELSE rows

\* ---------------------------------------------------------------------------
\* Subscriber hub (grpc/server.py)
\* ---------------------------------------------------------------------------
\* _broadcast: for queue, _ in list(self._subscribers): await queue.put(...)
\* The queues are unbounded, so put never suspends.
\* a broadcast whose put completes only on a queue that holds nothing
BroadcastToDrained(subs, tsig) ==
  [i \in 1..Len(subs) |->
     IF subs[i].queue = <<>> THEN [subs[i] EXCEPT !.queue = Append(@, tsig)]
     ELSE subs[i]]

Broadcast(subs, tsig) ==
  [i \in 1..Len(subs) |-> [subs[i] EXCEPT !.queue = Append(@, tsig)]]

\* the filter without its symbols test
MatchesIdsOnly(req, tsig) ==
  req.strategy_ids = {} \/ tsig.strategy_id \in req.strategy_ids

\* the filter StreamSignals applies to what it takes off its queue
Matches(req, tsig) ==
  /\ (req.strategy_ids = {} \/ tsig.strategy_id \in req.strategy_ids)
  /\ (req.symbols = {} \/ tsig.symbol \in req.symbols)

\* a bound on a subscriber queue, scaled down; the queues are constructed as
\* asyncio.Queue() without maxsize, so any finite bound is exceeded alike
QueueBound == 1

FilterIds == {{}, {"A"}}
FilterSymbols == {{}, {"ETH"}}

\* a finally block that leaves the list as it is
RemoveNothing(q, i) == q

\* self.server._subscribers.remove(sub)
RemoveAt(q, i) == [j \in 1..(Len(q) - 1) |-> IF j < i THEN q[j] ELSE q[j + 1]]

\* StreamSignals up to its first await: the entry is appended
Subscribe(ids, syms) ==
  /\ counts.subs < MaxSubs
  /\ LET n == counts.subs + 1 IN
     /\ subscribers' = Append(subscribers,
          [stream |-> n, queue |-> <<>>, strategy_ids |-> ids, symbols |-> syms])
     /\ streams' = Put(streams, n, [strategy_ids |-> ids, symbols |-> syms,
                                  taken |-> <<>>, yielded |-> <<>>, live |-> TRUE])
  /\ counts' = [counts EXCEPT !.subs = @ + 1]
  /\ UNCHANGED <<engineVars, clientVars, position, catalogVars, signals, orders,
                 forwarded, failedForward, task, ex, reload, startupRun,
                 nextKey, now, onCandleLog, engineStartTs, mainRun, returned>>

\* a queue that hands out its newest element first
StreamGetNewest(i) ==
  /\ i \in 1..Len(subscribers)
  /\ subscribers[i].queue # <<>>
  /\ streams[subscribers[i].stream].live
  /\ LET sub == subscribers[i]
         tsig == sub.queue[Len(sub.queue)]
     IN
     /\ subscribers' = [subscribers EXCEPT ![i].queue = SubSeq(@, 1, Len(@) - 1)]
     /\ streams' = [streams EXCEPT
          ![sub.stream].taken = Append(@, tsig),
          ![sub.stream].yielded = IF Matches(sub, tsig) THEN Append(@, tsig) ELSE @]
  /\ UNCHANGED <<engineVars, clientVars, position, catalogVars, signals, orders,
                 forwarded, failedForward, task, ex, reload, startupRun,
                 nextKey, now, onCandleLog, engineStartTs, mainRun, returned, counts>>

\* queue.get() returns: filter, then yield or continue
StreamGet(i) ==
  /\ i \in 1..Len(subscribers)
  /\ subscribers[i].queue # <<>>
  /\ streams[subscribers[i].stream].live
  /\ LET sub == subscribers[i]
         tsig == Head(sub.queue)
     IN
     /\ subscribers' = [subscribers EXCEPT ![i].queue = Tail(@)]
     /\ streams' = [streams EXCEPT
          ![sub.stream].taken = Append(@, tsig),
          ![sub.stream].yielded = IF Matches(sub, tsig) THEN Append(@, tsig) ELSE @]
  /\ UNCHANGED <<engineVars, clientVars, position, catalogVars, signals, orders,
                 forwarded, failedForward, task, ex, reload, startupRun,
                 nextKey, now, onCandleLog, engineStartTs, mainRun, returned, counts>>

\* the client ends, cancels or loses its stream; the handler is still
\* suspended in wait_for(queue.get(), timeout=1.0)
ClientGone(i) ==
  /\ i \in 1..Len(subscribers)
  /\ streams[subscribers[i].stream].live
  /\ streams' = [streams EXCEPT ![subscribers[i].stream].live = FALSE]
  /\ UNCHANGED <<engineVars, clientVars, position, catalogVars, signals, orders,
                 forwarded, failedForward, subscribers, task, ex, reload,
                 startupRun, nextKey, now, onCandleLog, engineStartTs, mainRun,
                 returned, counts>>

\* the handler resumes with CancelledError, or after a timeout finds the
\* context cancelled or inactive and breaks: finally removes the entry
StreamEnd(i) ==
  /\ i \in 1..Len(subscribers)
  /\ ~streams[subscribers[i].stream].live
  /\ subscribers' = RemoveAt(subscribers, i)
  /\ UNCHANGED streams
  /\ UNCHANGED <<engineVars, clientVars, position, catalogVars, signals, orders,
                 forwarded, failedForward, task, ex, reload, startupRun,
                 nextKey, now, onCandleLog, engineStartTs, mainRun, returned, counts>>

\* PublishSignal(request): a TradeSignal a client injects is broadcast as it is
PublishSignal(tsig) ==
  /\ counts.publishes < MaxPublish
  /\ subscribers' = Broadcast(subscribers, tsig)
  /\ nextKey' = nextKey + 1
  /\ counts' = [counts EXCEPT !.publishes = @ + 1]
  /\ UNCHANGED <<engineVars, clientVars, position, catalogVars, signals, orders,
                 forwarded, failedForward, streams, task, ex, reload,
                 startupRun, now, onCandleLog, engineStartTs, mainRun, returned>>

\* server.emit_signal(signal) called with a Signal of the given strategy and symbol
EmitSignalCall(sid, sym) ==
  /\ counts.publishes < MaxPublish
  /\ sid \in RowIds /\ sym \in Symbols
  /\ LET sig == [NoSig EXCEPT !.idempotency_key = nextKey, !.strategy_id = sid,
                              !.symbol = sym, !.side = "long"]
     IN subscribers' = Broadcast(subscribers, to_trade_signal(sig))
  /\ nextKey' = nextKey + 1
  /\ counts' = [counts EXCEPT !.publishes = @ + 1]
  /\ UNCHANGED <<engineVars, clientVars, position, catalogVars, signals, orders,
                 forwarded, failedForward, streams, task, ex, reload,
                 startupRun, now, onCandleLog, engineStartTs, mainRun, returned>>


\* ---------------------------------------------------------------------------
\* ExecutionServiceClient.execute_signal (grpc/execution_client.py 111-182)
\* ---------------------------------------------------------------------------
\* _to_order_request either raises on the missing TradeSignal attribute
\* ("raise") or reads the unset field ("unset"); which one depends on the
\* message type the installed varon_fi package generates.
ProtoOutcomes == {"raise", "unset"}

\* execute_signal ends before its first await: _to_order_request raised, or
\* range(1, max_retries + 1) is empty and `raise last_error` raises
ExecFailsAtOnce(proto) == proto = "raise" \/ max_retries < 1

\* the retry loop sleeping after every failed attempt, the last included
SleepsAfterLast(attempt, maxr) == attempt <= maxr

\* if attempt < self.max_retries: await asyncio.sleep(...)
ShouldSleep(attempt, maxr) == attempt < maxr

\* self.retry_delay * attempt
Backoff(delay, attempt) == delay * attempt


\* the strategy at index i got past the gates: record the candle and suspend
\* in _fetch_history (engine.py 286-295)
ReachFetch(t, candle, i, size, call) ==
  LET sid == strategies[i]
      key == Key(sid, candle.symbol, candle.timeframe)
      cts == normalize_candle_ts(candle.ts)
  IN
  /\ last_candle_ts' = IF cts # NoTs THEN Put(last_candle_ts, key, cts)
                       ELSE last_candle_ts
  /\ task' = [task EXCEPT ![t] =
       [pc |-> "fetch", candle |-> candle, idx |-> i, size |-> size,
        inst |-> <<sid, gen>>, required |-> Get(warmup_required, key, 0),
        sig |-> NoSig, call |-> call, error |-> ""]]

\* `continue`: the dict iterator is advanced; it raises RuntimeError when the
\* dict changed size since the loop began, otherwise the loop goes on with the
\* entries of the dict as it is now
Continue(t) ==
  IF Len(strategies) # task[t].size
  THEN /\ task' = [task EXCEPT ![t] = Crashed("RuntimeError")]
       /\ UNCHANGED last_candle_ts
  ELSE LET i == Scan(task[t].idx + 1, task[t].candle) IN
       IF i = 0
       THEN /\ task' = [task EXCEPT ![t] = IdleTask]
            /\ UNCHANGED last_candle_ts
       ELSE ReachFetch(t, task[t].candle, i, task[t].size, task[t].call)

\* process_candle without the return: the loop goes on after a signal
GoesOnAfterSignal == FALSE

\* `return signal` (engine.py 344) ends the loop over the strategies
ReturnsOnSignal == TRUE

\* process_candle is done with a signal: it returns it to
\* stream_for_timeframe, which calls server.emit_signal and then waits for the
\* next candle
ReturnSignal(t, sig) ==
  IF ReturnsOnSignal
  THEN /\ subscribers' = Broadcast(subscribers, to_trade_signal(sig))
       /\ task' = [task EXCEPT ![t] = IdleTask]
       /\ UNCHANGED <<streams, last_candle_ts>>
  ELSE Continue(t) /\ UNCHANGED hubVars

\* a forwarding block without its except clause
ForwardErrorPropagates == FALSE

\* except Exception as e: logger.error(...) (engine.py 329-337)
ForwardErrorCaught == TRUE

\* the forwarding block of process_candle ends: an exception of
\* execute_signal is caught and logged, and the signal is returned
ForwardEnds(t, raised) ==
  IF raised /\ ~ForwardErrorCaught
  THEN /\ task' = [task EXCEPT ![t] =
                    [Crashed("execute_signal") EXCEPT !.sig = task[t].sig]]
       /\ UNCHANGED <<hubVars, last_candle_ts>>
  ELSE ReturnSignal(t, task[t].sig)

\* execute_signal ends, leaving the record `outcome` of its run.  Called by
\* process_candle, its result is dropped (the except clause only logs) and the
\* signal is returned; called directly, the caller keeps the result.
ExecEnd(t, outcome) ==
  IF task[t].pc \in {"persist", "forward"}
  THEN /\ ex' = [ex EXCEPT ![t] = IdleEx]
       /\ failedForward' = IF outcome.pc = "failed"
                           THEN failedForward \cup {task[t].sig.idempotency_key}
                           ELSE failedForward
       /\ ForwardEnds(t, outcome.pc = "failed")
  ELSE /\ ex' = [ex EXCEPT ![t] = outcome]
       /\ task' = [task EXCEPT ![t] = IdleTask]
       /\ UNCHANGED failedForward
       /\ UNCHANGED <<hubVars, last_candle_ts>>

\* execute_signal from its entry to the first ExecuteSignal RPC
ExecStart(t, tsig, proto) ==
  IF ExecFailsAtOnce(proto)
  THEN /\ ExecEnd(t, [IdleEx EXCEPT !.pc = "failed"])
       /\ nextKey' = IF proto = "raise" THEN nextKey ELSE nextKey + 1
       /\ UNCHANGED orders
  ELSE LET order == to_order_request(tsig, nextKey) IN
       /\ ex' = [ex EXCEPT ![t] = [pc |-> "call", attempt |-> 1, attempts |-> 1,
                                   fails |-> 0, waits |-> <<>>, codes |-> <<>>,
                                   order |-> order]]
       /\ task' = [task EXCEPT ![t].pc = IF @ = "persist" THEN "forward" ELSE "direct"]
       /\ orders' = orders \cup {order}
       /\ nextKey' = nextKey + 1
       /\ UNCHANGED <<hubVars, last_candle_ts, failedForward>>

\* status codes an ExecuteSignal RPC ends with; all but OK reach the caller
\* as grpc.RpcError
RpcErrors == {"UNAVAILABLE", "INVALID_ARGUMENT", "FAILED_PRECONDITION"}
PermanentErrors == {"INVALID_ARGUMENT", "FAILED_PRECONDITION"}
Replies == {"OK"} \cup RpcErrors

\* the ExecuteSignal RPC answers: a response, or grpc.RpcError, which the
\* except clause handles the same way whatever its code; `codes` is history
ExecReply(t, reply) ==
  /\ ex[t].pc = "call"
  /\ reply \in Replies
  /\ IF reply = "OK"
     THEN ExecEnd(t, [ex[t] EXCEPT !.pc = "done"])
     ELSE IF ShouldSleep(ex[t].attempt, max_retries)
     THEN /\ ex' = [ex EXCEPT ![t].pc = "sleep", ![t].fails = @ + 1,
                              ![t].codes = Append(@, reply),
                              ![t].waits = Append(@, Backoff(retry_delay, ex[t].attempt))]
          /\ UNCHANGED <<task, hubVars, last_candle_ts, failedForward>>
     ELSE ExecEnd(t, [ex[t] EXCEPT !.pc = "failed", !.fails = @ + 1,
                                   !.codes = Append(@, reply)])
  /\ UNCHANGED <<loadVars, clientVars, position, catalogVars, signals, orders,
                 forwarded, reload, startupRun, nextKey, now, onCandleLog,
                 engineStartTs, mainRun, returned, counts>>

\* asyncio.sleep returns: the for loop takes the next attempt, or is exhausted
ExecWake(t) ==
  /\ ex[t].pc = "sleep"
  /\ IF ex[t].attempt + 1 <= max_retries
     THEN /\ ex' = [ex EXCEPT ![t].pc = "call", ![t].attempt = @ + 1,
                              ![t].attempts = @ + 1]
          /\ orders' = orders \cup {ex[t].order}
          /\ UNCHANGED <<task, hubVars, last_candle_ts, failedForward>>
     ELSE /\ ExecEnd(t, [ex[t] EXCEPT !.pc = "failed"])
          /\ UNCHANGED orders
  /\ UNCHANGED <<loadVars, clientVars, position, catalogVars, signals,
                 forwarded, reload, startupRun, nextKey, now, onCandleLog,
                 engineStartTs, mainRun, returned, counts>>

\* execute_signal called on the client directly with a TradeSignal
ExecuteSignalCall(t, sid, sym, proto) ==
  /\ task[t].pc = "idle"
  /\ counts.execs < MaxExecCalls
  /\ sid \in RowIds /\ sym \in Symbols /\ proto \in ProtoOutcomes
  /\ LET tsig == [signal_id |-> nextKey, strategy_id |-> sid, symbol |-> sym,
                  side |-> "long", trace_key |-> nextKey, src |-> NoKey]
     IN ExecStart(t, tsig, proto)
  /\ counts' = [counts EXCEPT !.execs = @ + 1]
  /\ UNCHANGED <<loadVars, clientVars, position, catalogVars, signals,
                 forwarded, reload, startupRun, now, onCandleLog, engineStartTs, mainRun,
                 returned>>

\* ---------------------------------------------------------------------------
\* stream_for_timeframe and StrategyEngine.process_candle
\* ---------------------------------------------------------------------------
\* the upstream stream yields a candle: process_candle runs to its first await
Deliver(t, sym, ts, close) ==
  /\ task[t].pc = "idle"
  /\ counts.candles < MaxCandles
  /\ sym \in SubscribedSymbols(t) /\ ts \in RawTs /\ close \in Closes
  /\ LET candle == [symbol |-> sym, timeframe |-> t, ts |-> ts, close |-> close]
         i == Scan(1, candle)
     IN IF i = 0
        THEN UNCHANGED <<task, last_candle_ts>>
        ELSE ReachFetch(t, candle, i, Len(strategies), counts.candles + 1)
  /\ counts' = [counts EXCEPT !.candles = @ + 1]
  /\ UNCHANGED <<strategies, gen, warmup_required, warmup_complete,
                 startup_latest_ts, clientVars, position, catalogVars, signals,
                 orders, forwarded, failedForward, hubVars, ex, reload,
                 startupRun, nextKey, now, onCandleLog, engineStartTs, mainRun,
                 returned>>

\* bars_needed = max(200, required, lookback_bars) if lookback_bars
\*               else max(200, required)
BarsNeeded(required, lb) ==
  IF lb # 0 THEN Max3(HistoryFloor, required, lb) ELSE Max(HistoryFloor, required)

\* _fetch_history: ORDER BY ts DESC LIMIT $3 with no condition on ts, sorted
\* ascending afterwards: the timestamp of the last bar of the window is the
\* newest one the catalog holds for the symbol and timeframe
fetch_history_newest(latest, c, histLen) ==
  IF histLen > 0 THEN latest[c] ELSE NoTs

\* _fetch_history returns: warmup check, on_candle, enrichment
\* (engine.py 295-320), up to the await of _persist_signal
FetchDone(t, ind) ==
  /\ task[t].pc = "fetch"
  /\ ind \in Inds
  /\ LET tk == task[t]
         c == tk.candle
         sid == tk.inst[1]
         key == Key(sid, c.symbol, c.timeframe)
         needed == BarsNeeded(tk.required, calc_lookback_bars(c.timeframe, sid))
         histLen == Min(catalogBars[<<c.symbol, c.timeframe>>], needed)
         pending == tk.required > 0 /\ ~Get(warmup_complete, key, TRUE)
         r == on_candle(Row(sid).name, position[tk.inst], c, histLen, ind)
     IN
     IF pending /\ histLen < tk.required
     THEN /\ Continue(t)
          /\ UNCHANGED <<warmup_complete, position, onCandleLog, nextKey>>
     ELSE /\ warmup_complete' = IF pending THEN Put(warmup_complete, key, TRUE)
                                ELSE warmup_complete
          /\ position' = [position EXCEPT ![tk.inst] = r.pos]
          /\ onCandleLog' = Put(onCandleLog, key,
               Append(Get(onCandleLog, key, <<>>),
                 [call |-> tk.call, idx |-> tk.idx, ts |-> c.ts, hist |-> histLen,
                  side |-> r.side, exit_reason |-> r.exit_reason]))
          /\ IF r.side = "none"
             THEN Continue(t) /\ UNCHANGED nextKey
             ELSE /\ task' = [task EXCEPT ![t].pc = "persist", ![t].sig =
                       [idempotency_key |-> nextKey, strategy_id |-> sid,
                        symbol |-> c.symbol, timeframe |-> c.timeframe,
                        side |-> r.side, exit_reason |-> r.exit_reason,
                        price |-> c.close, mode |-> Row(sid).mode,
                        call |-> tk.call, at |-> now]]
                  /\ nextKey' = nextKey + 1
                  /\ UNCHANGED last_candle_ts
  /\ UNCHANGED <<strategies, gen, warmup_required, startup_latest_ts,
                 clientVars, catalogVars, signals, orders, forwarded,
                 failedForward, hubVars, ex, reload, startupRun, now,
                 engineStartTs, mainRun, returned, counts>>

\* _persist_signal returns (engine.py 323): the row is written unless the
\* instrument is unknown; then the forwarder is called if there is one, and
\* without one the signal is returned and broadcast
PersistDone(t, proto) ==
  /\ task[t].pc = "persist"
  /\ proto \in ProtoOutcomes
  /\ signals' = persist_signal(signals, task[t].sig)
  /\ forwarded' = IF execution_client
                  THEN forwarded \cup {task[t].sig.idempotency_key} ELSE forwarded
  /\ IF execution_client
     THEN ExecStart(t, to_trade_signal(task[t].sig), proto)
     ELSE /\ proto = "unset"
          /\ ReturnSignal(t, task[t].sig)
          /\ UNCHANGED <<ex, orders, nextKey, failedForward>>
  /\ UNCHANGED <<loadVars, clientVars, position, catalogVars, reload,
                 startupRun, now, onCandleLog, engineStartTs, mainRun, returned, counts>>

\* a failed write that is swallowed: process_candle goes on as if it had
\* been made
PersistErrorSwallowed == FALSE

\* `await self._persist_signal(signal)` is not inside a try block: the error
\* of a failed write leaves process_candle
PersistErrorPropagates == TRUE

\* the INSERT fails with a database error: the exception leaves
\* process_candle and stream_for_timeframe
PersistFail(t) ==
  /\ task[t].pc = "persist"
  /\ IF PersistErrorPropagates
     THEN /\ task' = [task EXCEPT ![t] = [Crashed("persist") EXCEPT !.sig = task[t].sig]]
          /\ UNCHANGED <<hubVars, last_candle_ts>>
     ELSE ReturnSignal(t, task[t].sig)
  /\ UNCHANGED <<loadVars, clientVars, position, catalogVars, signals, orders,
                 forwarded, failedForward, ex, reload, startupRun, nextKey, now,
                 onCandleLog, engineStartTs, mainRun, returned, counts>>

\* _fetch_history raises (a database error): nothing in process_candle or
\* stream_for_timeframe catches it (engine.py 295, main.py 31-39)
FetchFail(t) ==
  /\ task[t].pc = "fetch"
  /\ task' = [task EXCEPT ![t] = Crashed("fetch_history")]
  /\ UNCHANGED <<engineVars, clientVars, position, catalogVars, signals, orders,
                 forwarded, failedForward, hubVars, ex, reload, startupRun,
                 nextKey, now, onCandleLog, engineStartTs, mainRun, returned, counts>>

\* _fetch_history returns and strategy.on_candle raises (engine.py 298-310):
\* the warm-up check has run, the call is not wrapped in try/except
OnCandleRaises(t) ==
  /\ task[t].pc = "fetch"
  /\ LET tk == task[t]
         c == tk.candle
         key == Key(tk.inst[1], c.symbol, c.timeframe)
         needed == BarsNeeded(tk.required, calc_lookback_bars(c.timeframe, tk.inst[1]))
         histLen == Min(catalogBars[<<c.symbol, c.timeframe>>], needed)
         pending == tk.required > 0 /\ ~Get(warmup_complete, key, TRUE)
     IN /\ ~(pending /\ histLen < tk.required)
        /\ warmup_complete' = IF pending THEN Put(warmup_complete, key, TRUE)
                              ELSE warmup_complete
  /\ task' = [task EXCEPT ![t] = Crashed("on_candle")]
  /\ UNCHANGED <<strategies, gen, warmup_required, startup_latest_ts,
                 last_candle_ts, clientVars, position, catalogVars, signals,
                 orders, forwarded, failedForward, hubVars, ex, reload,
                 startupRun, nextKey, now, onCandleLog, engineStartTs, mainRun, returned,
                 counts>>

\* main(): asyncio.gather(*tasks) raises the exception of the first task
\* that failed; the finally block cancels every task not yet done
\* (main.py 80-91)
MainCancelsTasks ==
  /\ \E t \in Timeframes : task[t].pc = "crashed"
  /\ \E t \in Timeframes : task[t].pc \notin {"crashed", "cancelled"}
  /\ LET cause == (CHOOSE t \in Timeframes : task[t].pc = "crashed") IN
     /\ task' = [t \in Timeframes |->
          IF task[t].pc = "crashed" THEN task[t]
          ELSE [IdleTask EXCEPT !.pc = "cancelled", !.error = task[cause].error]]
     /\ ex' = [t \in Timeframes |-> IF task[t].pc = "crashed" THEN ex[t] ELSE IdleEx]
  /\ UNCHANGED <<engineVars, clientVars, position, catalogVars, signals, orders,
                 forwarded, failedForward, hubVars, reload, startupRun, nextKey,
                 now, onCandleLog, engineStartTs, mainRun, returned, counts>>


\* ---------------------------------------------------------------------------
\* StrategyEngine.reload_strategies (engine.py 53-60), cut at its awaits
\* ---------------------------------------------------------------------------
\* reload_strategies clearing _last_candle_ts along with the warmup maps
ReloadClearsLastCandleTs(last) == EmptyDict

\* the maps reload_strategies clears before it loads again; _last_candle_ts
\* and _startup_latest_ts are not among them
ReloadKeepsLastCandleTs(last) == last

ReloadStart ==
  /\ reload = "idle"
  /\ counts.reloads < MaxReloads
  /\ strategies' = <<>>
  /\ warmup_required' = EmptyDict
  /\ warmup_complete' = EmptyDict
  /\ last_candle_ts' = ReloadKeepsLastCandleTs(last_candle_ts)
  /\ reload' = "load"
  /\ counts' = [counts EXCEPT !.reloads = @ + 1]
  /\ UNCHANGED <<gen, startup_latest_ts, clientVars, position, catalogVars,
                 signals, orders, forwarded, failedForward, hubVars, task, ex,
                 startupRun, nextKey, now, onCandleLog, engineStartTs, mainRun,
                 returned>>

\* the strategies query returns: instances are created and registered
ReloadLoad ==
  /\ reload = "load"
  /\ strategies' = LoadedIds
  /\ gen' = gen + 1
  /\ warmup_required' = LoadedWarmupRequired(LoadedIds)
  /\ warmup_complete' = LoadedWarmupComplete(LoadedIds)
  /\ reload' = IF LoadedIds = <<>> THEN "idle" ELSE "startup"
  /\ startupRun' = [todo |-> ComboSeq(LoadedIds), lens |-> <<>>]
  /\ UNCHANGED <<last_candle_ts, startup_latest_ts, clientVars, position,
                 catalogVars, signals, orders, forwarded, failedForward,
                 hubVars, task, ex, nextKey, now, onCandleLog, engineStartTs, mainRun,
                 returned, counts>>

\* _initialize_startup_state, `row = await conn.fetchrow(MAX(ts))` returns for
\* the next combo (engine.py 158-170); after the last one the priming loop
\* runs to its first history fetch, or to its end when no key needs one
ReloadStartupTs ==
  /\ reload = "startup"
  /\ LET c == Head(startupRun.todo)
         rest == Tail(startupRun.todo)
     IN /\ startup_latest_ts' = RecordOneStartupTs(startup_latest_ts, c, catalogLatest)
        /\ startupRun' = [startupRun EXCEPT !.todo = rest]
        /\ reload' = IF rest # <<>> THEN "startup"
                     ELSE IF PrimeSeq(strategies, warmup_required) = <<>> THEN "idle"
                     ELSE "prime"
  /\ UNCHANGED <<strategies, gen, warmup_required, warmup_complete,
                 last_candle_ts, clientVars, position, catalogVars, signals,
                 orders, forwarded, failedForward, hubVars, task, ex, nextKey,
                 now, onCandleLog, engineStartTs, mainRun, returned, counts>>

\* _initialize_startup_state, `history = await self._fetch_history(...)`
\* returns for the next key that needs bars (engine.py 183-200)
ReloadPrime ==
  /\ reload = "prime"
  /\ LET keys == PrimeSeq(strategies, warmup_required)
         k == keys[Len(startupRun.lens) + 1]
         req == Get(warmup_required, k, 0)
         fetched == Min(catalogBars[<<k[2], k[3]>>], PrimeBarsNeeded(req, k))
     IN /\ warmup_complete' = Put(warmup_complete, k, fetched >= req)
        /\ startupRun' = [startupRun EXCEPT !.lens = Append(@, fetched)]
        /\ reload' = IF Len(startupRun.lens) + 1 = Len(keys) THEN "idle" ELSE "prime"
  /\ UNCHANGED <<strategies, gen, warmup_required, startup_latest_ts,
                 last_candle_ts, clientVars, position, catalogVars, signals,
                 orders, forwarded, failedForward, hubVars, task, ex, nextKey,
                 now, onCandleLog, engineStartTs, mainRun, returned, counts>>

\* ---------------------------------------------------------------------------
\* A strategy instance called directly (as the strategy tests do)
\* ---------------------------------------------------------------------------
\* lengths of the history handed to on_candle: short of every minimum, the
\* engine's 200-bar window, a full low_vol_momentum lookback
HistLens == {49, HistoryFloor, LookbackPeriods}

\* instance.on_candle(candle, history) on the one instance of the run
OnCandleCall(sym, ts, close, histLen, ind) ==
  /\ counts.calls < MaxCalls
  /\ \E inst \in DOMAIN position :
       LET candle == [symbol |-> sym, timeframe |-> "5m", ts |-> ts, close |-> close]
           r == on_candle(inst[1], position[inst], candle, histLen, ind)
       IN /\ position' = [position EXCEPT ![inst] = r.pos]
          /\ returned' = Append(returned,
               [symbol |-> sym, side |-> r.side, exit_reason |-> r.exit_reason])
  /\ counts' = [counts EXCEPT !.calls = @ + 1]
  /\ UNCHANGED <<engineVars, clientVars, catalogVars, signals, orders,
                 forwarded, failedForward, hubVars, task, ex, reload,
                 startupRun, nextKey, now, onCandleLog, engineStartTs, mainRun>>

\* ---------------------------------------------------------------------------
\* Environment: the data service appends a bar; time passes
\* ---------------------------------------------------------------------------
CatalogAppend(c) ==
  /\ counts.appends < MaxAppends
  /\ c \in LoadedCombos(LoadedIds)
  /\ c[1] \in instruments
  /\ catalogLatest[c] < MaxTs
  /\ catalogBars' = [catalogBars EXCEPT ![c] = @ + 1]
  /\ catalogLatest' = [catalogLatest EXCEPT ![c] = @ + 1]
  /\ UNCHANGED instruments
  /\ counts' = [counts EXCEPT !.appends = @ + 1]
  /\ UNCHANGED <<engineVars, clientVars, position, signals, orders, forwarded,
                 failedForward, hubVars, task, ex, reload, startupRun, nextKey,
                 now, onCandleLog, engineStartTs, mainRun, returned>>

\* the instruments row of a symbol is renamed or removed: the lookup by symbol
\* (engine.py 458-460) and the JOIN of the history and MAX(ts) queries find
\* nothing for it any more
InstrumentRenamed(sym) ==
  /\ sym \in instruments
  /\ instruments' = instruments \ {sym}
  /\ catalogBars' = [c \in Combos |-> IF c[1] = sym THEN 0 ELSE catalogBars[c]]
  /\ catalogLatest' = [c \in Combos |-> IF c[1] = sym THEN NoTs ELSE catalogLatest[c]]
  /\ UNCHANGED <<engineVars, clientVars, position, signals, orders, forwarded,
                 failedForward, hubVars, task, ex, reload, startupRun, nextKey,
                 now, onCandleLog, engineStartTs, mainRun, returned, counts>>

Tick ==
  /\ now < MaxNow
  /\ now' = now + 1
  /\ UNCHANGED <<engineVars, clientVars, position, catalogVars, signals, orders,
                 forwarded, failedForward, hubVars, task, ex, reload,
                 startupRun, nextKey, onCandleLog, engineStartTs, mainRun, returned,
                 counts>>

\* ---------------------------------------------------------------------------
\* main() (main.py 42-91) and what it calls at startup and shutdown
\* ---------------------------------------------------------------------------
\* main() past its startup, awaiting asyncio.gather(*tasks)
MainServing ==
  [pc |-> "serving", catalog |-> <<>>, subscriptions |-> EmptyDict,
   tasks |-> EmptyDict, interrupted |-> FALSE, server |-> "up", pool |-> "open",
   exec |-> "none"]

\* the row of a strategies table with the given id
CatalogRow(rows, id) == rows[CHOOSE i \in 1..Len(rows) : rows[i].id = id]

\* _create_strategy with every name accepted
create_any_strategy(row) == TRUE

\* _create_strategy: create_strategy raises KeyError for a name that is not
\* registered, which is logged and answered with None
create_strategy(row) == row.name \in StrategyNames

\* _load_strategies: the ids registered in self.strategies, in row order
RECURSIVE load_strategies(_)
load_strategies(rows) ==
  IF rows = <<>> THEN <<>>
  ELSE (IF create_strategy(Head(rows)) THEN <<Head(rows).id>> ELSE <<>>)
         \o load_strategies(Tail(rows))

RowKeys(row) == {Key(row.id, s, t) : s \in row.symbols, t \in row.timeframes}

RegisteredKeys(rows, ids) ==
  UNION {RowKeys(CatalogRow(rows, id)) : id \in SeqRange(ids)}

\* self._warmup_required after _load_strategies
load_warmup_required(rows, ids) ==
  [k \in RegisteredKeys(rows, ids) |-> CatalogRow(rows, k[1]).init_periods]

\* self._warmup_complete after _load_strategies and the priming of
\* _initialize_startup_state
load_warmup_complete(rows, ids, bars) ==
  [k \in RegisteredKeys(rows, ids) |->
     LET req == CatalogRow(rows, k[1]).init_periods IN
     IF req > 0 THEN Min(bars[<<k[2], k[3]>>], req) >= req ELSE TRUE]

\* self._startup_latest_ts after _initialize_startup_state
load_startup_latest_ts(rows, ids, latest) ==
  LET combos == {<<k[2], k[3]>> : k \in RegisteredKeys(rows, ids)} IN
  [c \in {x \in combos : latest[x] # NoTs} |-> latest[c]]

\* subscriptions[timeframe] = set(strategy.symbols): the last strategy of a
\* timeframe replaces what the earlier ones declared
assign_subscriptions(subs, row) ==
  [tf \in (DOMAIN subs) \cup row.timeframes |->
     IF tf \in row.timeframes THEN row.symbols ELSE subs[tf]]

\* for timeframe in strategy.timeframes:
\*     subscriptions.setdefault(timeframe, set()).update(strategy.symbols)
update_subscriptions(subs, row) ==
  [tf \in (DOMAIN subs) \cup row.timeframes |->
     IF tf \in row.timeframes THEN Get(subs, tf, {}) \cup row.symbols ELSE subs[tf]]

RECURSIVE collect_subscriptions(_, _, _)
collect_subscriptions(rows, ids, subs) ==
  IF ids = <<>> THEN subs
  ELSE collect_subscriptions(rows, Tail(ids),
                             update_subscriptions(subs, CatalogRow(rows, Head(ids))))

\* get_required_subscriptions: {tf: list(symbols)}; the order of list(set) is
\* not fixed by the program, the model takes SymbolOrder
get_required_subscriptions(rows, ids) ==
  LET subs == collect_subscriptions(rows, ids, EmptyDict) IN
  [tf \in DOMAIN subs |-> SelectIn(SymbolOrder, subs[tf])]

\* engine = StrategyEngine(...), taken with the parameters engine.py gives
\* the constructor; await engine.initialize()
MainInitialize ==
  /\ mainRun.pc = "new"
  /\ LET rows == mainRun.catalog
         ids == load_strategies(rows)
     IN /\ strategies' = ids
        /\ warmup_required' = load_warmup_required(rows, ids)
        /\ warmup_complete' = load_warmup_complete(rows, ids, catalogBars)
        /\ startup_latest_ts' = load_startup_latest_ts(rows, ids, catalogLatest)
        /\ engineStartTs' = load_startup_latest_ts(rows, ids, catalogLatest)
  /\ mainRun' = [mainRun EXCEPT !.pc = "initialized", !.pool = "open"]
  /\ UNCHANGED <<gen, last_candle_ts, clientVars, position, catalogVars,
                 signals, orders, forwarded, failedForward, hubVars, task, ex,
                 reload, startupRun, nextKey, now, onCandleLog, returned,
                 counts>>

\* a stream_for_timeframe task: connected and reading its stream
RunningTask == [state |-> "running", client |-> "connected"]

\* subscriptions = engine.get_required_subscriptions(); RuntimeError when it
\* is empty; otherwise the server is started and one task per timeframe is
\* created (main.py 55-77)
MainStart ==
  /\ mainRun.pc = "initialized"
  /\ LET subs == get_required_subscriptions(mainRun.catalog, strategies) IN
     mainRun' =
       IF DOMAIN subs = {}
       THEN [mainRun EXCEPT !.pc = "failed"]
       ELSE [mainRun EXCEPT !.pc = "serving", !.subscriptions = subs,
                            !.server = "up",
                            !.tasks = [tf \in DOMAIN subs |-> RunningTask]]
  /\ UNCHANGED <<engineVars, clientVars, position, catalogVars, signals, orders,
                 forwarded, failedForward, hubVars, task, ex, reload,
                 startupRun, nextKey, now, onCandleLog, engineStartTs,
                 returned, counts>>

TaskStates == {"finished", "failed", "cancelled"}

\* a task leaves stream_for_timeframe: its stream ended, an exception of
\* process_candle or emit_signal passed through, or CancelledError was
\* re-raised; on every way out `finally: await client.disconnect()` has run
TaskEnds(tf, how) ==
  /\ mainRun.pc \in {"serving", "gathering"}
  /\ tf \in DOMAIN mainRun.tasks
  /\ \/ mainRun.tasks[tf].state = "running" /\ how \in {"finished", "failed"}
     \/ mainRun.tasks[tf].state = "cancelling" /\ how = "cancelled"
  /\ mainRun' = [mainRun EXCEPT !.tasks[tf] =
                   [state |-> how, client |-> "disconnected"]]
  /\ UNCHANGED <<engineVars, clientVars, position, catalogVars, signals, orders,
                 forwarded, failedForward, hubVars, task, ex, reload,
                 startupRun, nextKey, now, onCandleLog, engineStartTs,
                 returned, counts>>

\* task.cancel() on every task that is not done
CancelTasks(tasks) ==
  [tf \in DOMAIN tasks |->
     IF tasks[tf].state = "running"
     THEN [tasks[tf] EXCEPT !.state = "cancelling"] ELSE tasks[tf]]

\* main() is cancelled while it awaits asyncio.gather(*tasks): the gather
\* passes the cancellation to its tasks and ends when they have ended
MainInterrupted ==
  /\ mainRun.pc = "serving"
  /\ ~mainRun.interrupted
  /\ mainRun' = [mainRun EXCEPT !.interrupted = TRUE,
                                !.tasks = CancelTasks(mainRun.tasks)]
  /\ UNCHANGED <<engineVars, clientVars, position, catalogVars, signals, orders,
                 forwarded, failedForward, hubVars, task, ex, reload,
                 startupRun, nextKey, now, onCandleLog, engineStartTs,
                 returned, counts>>

TasksDone(tasks) == \A tf \in DOMAIN tasks : tasks[tf].state \in TaskStates

\* `await asyncio.gather(*tasks)` ends: with the exception of the first task
\* that failed, or when every task is done; the finally block cancels the
\* tasks that are not done (main.py 79-88)
MainFinally ==
  /\ mainRun.pc = "serving"
  /\ \/ \E tf \in DOMAIN mainRun.tasks : mainRun.tasks[tf].state = "failed"
     \/ TasksDone(mainRun.tasks)
  /\ mainRun' = [mainRun EXCEPT !.pc = "gathering",
                                !.tasks = CancelTasks(mainRun.tasks)]
  /\ UNCHANGED <<engineVars, clientVars, position, catalogVars, signals, orders,
                 forwarded, failedForward, hubVars, task, ex, reload,
                 startupRun, nextKey, now, onCandleLog, engineStartTs,
                 returned, counts>>

\* a gather that does not wait for its tasks
GatherReturnsAtOnce(tasks) == TRUE

\* await asyncio.gather(*tasks, return_exceptions=True) returns
GatherReturns(tasks) == TasksDone(tasks)

\* await server.stop() (main.py 90)
MainStopsServer ==
  /\ mainRun.pc = "gathering"
  /\ GatherReturns(mainRun.tasks)
  /\ mainRun' = [mainRun EXCEPT !.pc = "stopped", !.server = "stopped"]
  /\ UNCHANGED <<engineVars, clientVars, position, catalogVars, signals, orders,
                 forwarded, failedForward, hubVars, task, ex, reload,
                 startupRun, nextKey, now, onCandleLog, engineStartTs,
                 returned, counts>>

\* await engine.shutdown() (main.py 91): the execution client, if there is
\* one, is disconnected and the pool is closed
MainShutsEngineDown ==
  /\ mainRun.pc = "stopped"
  /\ mainRun' = [mainRun EXCEPT
       !.pc = "exited", !.pool = "closed",
       !.exec = IF execution_client THEN "disconnected" ELSE @]
  /\ UNCHANGED <<engineVars, clientVars, position, catalogVars, signals, orders,
                 forwarded, failedForward, hubVars, task, ex, reload,
                 startupRun, nextKey, now, onCandleLog, engineStartTs,
                 returned, counts>>

\* ---------------------------------------------------------------------------
\* Initial states
\* ---------------------------------------------------------------------------
\* catalog contents when the service starts
CatalogFull == [bars |-> [c \in Combos |-> 200], latest |-> [c \in Combos |-> 1]]
CatalogThin ==
  [bars |-> [c \in Combos |-> IF c = <<"BTC", "5m">> THEN 200
                              ELSE IF c = <<"BTC", "15m">> THEN 49 ELSE 0],
   latest |-> [c \in Combos |-> IF c[1] = "BTC" THEN 1 ELSE NoTs]]

NoCounts == [candles |-> 0, reloads |-> 0, appends |-> 0, subs |-> 0,
             publishes |-> 0, calls |-> 0, execs |-> 0]

\* the engine after initialize() on catalog `cat`
EngineInit(cat) ==
  /\ strategies = LoadedIds
  /\ gen = 0
  /\ warmup_required = LoadedWarmupRequired(LoadedIds)
  /\ warmup_complete = PrimeWarmup(LoadedWarmupComplete(LoadedIds),
                                   LoadedWarmupRequired(LoadedIds), LoadedIds, cat.bars)
  /\ last_candle_ts = EmptyDict
  /\ startup_latest_ts = RecordStartupTs(EmptyDict, LoadedIds, cat.latest)
  /\ engineStartTs = RecordStartupTs(EmptyDict, LoadedIds, cat.latest)
  /\ mainRun = MainServing
  /\ catalogBars = cat.bars
  /\ instruments = Instruments
  /\ catalogLatest = cat.latest
  /\ position = [i \in Instances |-> NoPositions]
  /\ startupRun = [todo |-> <<>>, lens |-> InitialPrimeLens(LoadedIds, cat.bars)]

RestInit ==
  /\ signals = {}
  /\ orders = {}
  /\ forwarded = {}
  /\ failedForward = {}
  /\ subscribers = <<>>
  /\ streams = EmptyDict
  /\ task = [t \in Timeframes |-> IdleTask]
  /\ ex = [t \in Timeframes |-> IdleEx]
  /\ reload = "idle"
  /\ nextKey = 1
  /\ now = 0
  /\ onCandleLog = EmptyDict
  /\ returned = <<>>
  /\ counts = NoCounts

\* The engine and its per-timeframe consumers, with reloads and a growing
\* catalog that starts thin: one key is still warming up and one symbol has
\* no bar yet.  No execution client is connected (main() never calls
\* connect_execution_service) and nobody subscribes.
Init ==
  /\ EngineInit(CatalogThin)
  /\ execution_client = FALSE
  /\ max_retries = DefaultMaxRetries
  /\ retry_delay = DefaultRetryDelay
  /\ RestInit

Next ==
  \/ \E t \in Timeframes, sym \in Symbols, ts \in RawTs, close \in Closes :
       Deliver(t, sym, ts, close)
  \/ \E t \in Timeframes, ind \in StreamInds : FetchDone(t, ind)
  \/ \E t \in Timeframes, proto \in ProtoOutcomes : PersistDone(t, proto)
  \/ \E t \in Timeframes : PersistFail(t)
  \/ ReloadStart
  \/ ReloadLoad
  \/ ReloadStartupTs
  \/ ReloadPrime
  \/ \E c \in Combos : CatalogAppend(c)

Spec == Init /\ [][Next]_vars

\* The path of a signal: persist, forward with retries, broadcast to a
\* connected StreamSignals subscriber.  The execution client is connected or
\* absent.
OneSubscriber ==
  <<[stream |-> 1, queue |-> <<>>, strategy_ids |-> {}, symbols |-> {}]>>

InitPipe ==
  /\ EngineInit(CatalogFull)
  /\ execution_client \in BOOLEAN
  /\ max_retries = DefaultMaxRetries
  /\ retry_delay = DefaultRetryDelay
  /\ signals = {}
  /\ orders = {}
  /\ forwarded = {}
  /\ failedForward = {}
  /\ subscribers = OneSubscriber
  /\ streams = Put(EmptyDict, 1, [strategy_ids |-> {}, symbols |-> {},
                               taken |-> <<>>, yielded |-> <<>>, live |-> TRUE])
  /\ task = [t \in Timeframes |-> IdleTask]
  /\ ex = [t \in Timeframes |-> IdleEx]
  /\ reload = "idle"
  /\ nextKey = 1
  /\ now = 0
  /\ onCandleLog = EmptyDict
  /\ returned = <<>>
  /\ counts = [NoCounts EXCEPT !.subs = 1]

NextPipe ==
  \/ \E t \in Timeframes, sym \in Symbols, ts \in RawTs, close \in Closes :
       Deliver(t, sym, ts, close)
  \/ \E t \in Timeframes, ind \in StreamInds : FetchDone(t, ind)
  \/ \E t \in Timeframes, proto \in ProtoOutcomes : PersistDone(t, proto)
  \/ \E t \in Timeframes : PersistFail(t)
  \/ \E t \in Timeframes, reply \in {"OK", "UNAVAILABLE"} : ExecReply(t, reply)
  \/ \E t \in Timeframes : ExecWake(t)
  \/ StreamGet(1)

SpecPipe == InitPipe /\ [][NextPipe]_vars

\* The path of the signals of the 5m consumer, with the forwarder connected,
\* while the instruments table changes.
InitInstr == InitPipe /\ execution_client = TRUE

NextInstr ==
  \/ \E sym \in Symbols, ts \in RawTs, close \in Closes : Deliver("5m", sym, ts, close)
  \/ \E ind \in StreamInds : FetchDone("5m", ind)
  \/ \E proto \in ProtoOutcomes : PersistDone("5m", proto)
  \/ \E reply \in {"OK", "UNAVAILABLE"} : ExecReply("5m", reply)
  \/ ExecWake("5m")
  \/ \E sym \in Symbols : InstrumentRenamed(sym)

SpecInstr == InitInstr /\ [][NextInstr]_vars

\* The engine with one consumer task under a running wall clock.
InitCooldown ==
  /\ EngineInit(CatalogFull)
  /\ execution_client = FALSE
  /\ max_retries = DefaultMaxRetries
  /\ retry_delay = DefaultRetryDelay
  /\ RestInit

NextCooldown ==
  \/ \E sym \in Symbols, ts \in RawTs, close \in Closes : Deliver("5m", sym, ts, close)
  \/ \E ind \in StreamInds : FetchDone("5m", ind)
  \/ PersistDone("5m", "unset")
  \/ Tick

SpecCooldown == InitCooldown /\ [][NextCooldown]_vars

\* The engine and its consumer tasks when a database call or a strategy
\* raises; main() awaits the tasks with asyncio.gather.
NextFaults ==
  \/ \E t \in Timeframes, sym \in Symbols, ts \in RawTs, close \in Closes :
       Deliver(t, sym, ts, close)
  \/ \E t \in Timeframes, ind \in StreamInds : FetchDone(t, ind)
  \/ \E t \in Timeframes : FetchFail(t)
  \/ \E t \in Timeframes : OnCandleRaises(t)
  \/ \E t \in Timeframes : PersistDone(t, "unset")
  \/ \E t \in Timeframes : PersistFail(t)
  \/ MainCancelsTasks

SpecFaults == InitCooldown /\ [][NextFaults]_vars

\* The subscriber hub alone: StreamSignals clients come and go, signals are
\* broadcast by emit_signal and by PublishSignal.
NextHub ==
  \/ \E ids \in FilterIds, syms \in FilterSymbols : Subscribe(ids, syms)
  \/ \E i \in 1..MaxSubs : StreamGet(i)
  \/ \E i \in 1..MaxSubs : ClientGone(i)
  \/ \E i \in 1..MaxSubs : StreamEnd(i)
  \/ \E sid \in RowIds, sym \in Symbols :
       PublishSignal([signal_id |-> nextKey, strategy_id |-> sid, symbol |-> sym,
                      side |-> "long", trace_key |-> nextKey, src |-> NoKey])
  \/ \E sid \in RowIds, sym \in Symbols : EmitSignalCall(sid, sym)

SpecHub == InitCooldown /\ [][NextHub]_vars

\* the handler of stream n takes the next signal off its queue
StreamGetOf(n) ==
  \E i \in 1..MaxSubs : i \in 1..Len(subscribers) /\ subscribers[i].stream = n /\ StreamGet(i)

\* the event loop resumes a handler suspended in queue.get() once its queue
\* holds a signal, and a live client reads what the handler yields
SpecHubLive == SpecHub /\ \A n \in 1..MaxSubs : WF_vars(StreamGetOf(n))

\* the event loop resumes a StreamSignals handler whose stream has ended: at
\* once with CancelledError, or at the latest when its 1 s timeout expires
SpecHubFair == SpecHub /\ WF_vars(\E i \in 1..MaxSubs : StreamEnd(i))

\* An ExecutionServiceClient constructed with any max_retries and retry_delay,
\* its execute_signal called directly.
InitExec ==
  /\ EngineInit(CatalogFull)
  /\ execution_client = TRUE
  /\ max_retries \in 0..MaxRetriesArg
  /\ retry_delay \in 1..MaxDelayArg
  /\ RestInit

NextExec ==
  \/ \E sid \in RowIds, sym \in Symbols, proto \in ProtoOutcomes :
       ExecuteSignalCall("5m", sid, sym, proto)
  \/ \E reply \in Replies : ExecReply("5m", reply)
  \/ ExecWake("5m")

SpecExec == InitExec /\ [][NextExec]_vars

\* One instance of a built-in strategy, created by create_strategy(name), with
\* candles presented to its on_candle directly.
InitStrat ==
  /\ strategies = <<>>
  /\ gen = 0
  /\ warmup_required = EmptyDict
  /\ warmup_complete = EmptyDict
  /\ last_candle_ts = EmptyDict
  /\ startup_latest_ts = EmptyDict
  /\ engineStartTs = EmptyDict
  /\ mainRun = MainServing
  /\ catalogBars = CatalogFull.bars
  /\ instruments = Instruments
  /\ catalogLatest = CatalogFull.latest
  /\ \E name \in StrategyNames : position = [i \in {<<name, 0>>} |-> NoPositions]
  /\ startupRun = [todo |-> <<>>, lens |-> <<>>]
  /\ execution_client = FALSE
  /\ max_retries = DefaultMaxRetries
  /\ retry_delay = DefaultRetryDelay
  /\ RestInit

NextStrat ==
  \E sym \in Symbols, ts \in RawTs, close \in Prices, histLen \in HistLens, ind \in Inds :
    OnCandleCall(sym, ts, close, histLen, ind)

SpecStrat == InitStrat /\ [][NextStrat]_vars

\* The 5m consumer on a stream that carries only candles newer than the
\* catalog held at startup: the startup gate stops none of them.
NextSession ==
  \/ \E sym \in Symbols, ts \in RawTs, close \in Closes :
       /\ ts.seconds > CatalogFull.latest[<<sym, "5m">>]
       /\ Deliver("5m", sym, ts, close)
  \/ \E ind \in StreamInds : FetchDone("5m", ind)
  \/ PersistDone("5m", "unset")

SpecSession == InitCooldown /\ [][NextSession]_vars

\* The 5m consumer on a stream that carries only candles inside the session
\* window, some of them not newer than the catalog held at startup.
NextStartup ==
  \/ \E sym \in Symbols, ts \in RawTs, close \in Closes :
       /\ InSessionWindow(normalize_candle_ts(ts))
       /\ Deliver("5m", sym, ts, close)
  \/ \E ind \in StreamInds : FetchDone("5m", ind)
  \/ PersistDone("5m", "unset")

SpecStartup == InitCooldown /\ [][NextStartup]_vars

\* The 5m consumer while the strategies are reloaded: every strategy sees
\* candles of one timeframe only.
NextReload ==
  \/ \E sym \in Symbols, ts \in RawTs, close \in Closes : Deliver("5m", sym, ts, close)
  \/ \E ind \in StreamInds : FetchDone("5m", ind)
  \/ PersistDone("5m", "unset")
  \/ ReloadStart
  \/ ReloadLoad
  \/ ReloadStartupTs
  \/ ReloadPrime

SpecReload == InitCooldown /\ [][NextReload]_vars

\* main() from its first line, over strategies tables of up to two active
\* rows: registered and unregistered names, any symbols and timeframes.
CatalogNames == {"momentum", "mtf_confluence", "unknown_strategy"}
CatalogRows(id) ==
  [id : {id}, name : CatalogNames, symbols : SUBSET Symbols,
   timeframes : SUBSET Timeframes, init_periods : {0, 50}]
Catalogs ==
  {<<>>} \cup {<<a>> : a \in CatalogRows("A")}
         \cup {<<a, b>> : a \in CatalogRows("A"), b \in CatalogRows("B")}

InitMain ==
  /\ strategies = <<>>
  /\ gen = 0
  /\ warmup_required = EmptyDict
  /\ warmup_complete = EmptyDict
  /\ last_candle_ts = EmptyDict
  /\ startup_latest_ts = EmptyDict
  /\ engineStartTs = EmptyDict
  /\ catalogBars = CatalogThin.bars
  /\ instruments = Instruments
  /\ catalogLatest = CatalogThin.latest
  /\ position = [i \in Instances |-> NoPositions]
  /\ startupRun = [todo |-> <<>>, lens |-> <<>>]
  /\ execution_client \in BOOLEAN
  /\ max_retries = DefaultMaxRetries
  /\ retry_delay = DefaultRetryDelay
  /\ RestInit
  /\ \E rows \in Catalogs :
       mainRun = [MainServing EXCEPT
         !.pc = "new", !.catalog = rows, !.server = "none", !.pool = "none",
         !.exec = IF execution_client THEN "connected" ELSE "none"]

NextMain ==
  \/ MainInitialize
  \/ MainStart
  \/ \E tf \in Timeframes, how \in TaskStates : TaskEnds(tf, how)
  \/ MainInterrupted
  \/ MainFinally
  \/ MainStopsServer
  \/ MainShutsEngineDown

SpecMain == InitMain /\ [][NextMain]_vars

\* ---------------------------------------------------------------------------
\* Properties
\* ---------------------------------------------------------------------------
SignalKeys == {r.idempotency_key : r \in signals}

\* every TradeSignal a subscriber queue holds or a stream has taken off it
Delivered ==
  UNION {SeqRange(subscribers[i].queue) : i \in 1..Len(subscribers)}
    \cup UNION {SeqRange(streams[n].taken) : n \in DOMAIN streams}

\* the on_candle invocations of key k
LogOf(k) == Get(onCandleLog, k, <<>>)

C2_OnCandleTsStrictlyIncreasing ==
  \A k \in DOMAIN onCandleLog :
    \A i \in 1..(Len(onCandleLog[k]) - 1) :
      RawBefore(onCandleLog[k][i].ts, onCandleLog[k][i + 1].ts)

\* one key has seen two candles although three were delivered: one delivery
\* was a duplicate, out of order, or gated
C2_Witness ==
  \E k \in DOMAIN onCandleLog :
    /\ Len(onCandleLog[k]) = 2
    /\ counts.candles = 3

\* C3: no candle at or before the latest catalog bar recorded for its
\* (symbol, timeframe) when the engine started is passed to on_candle, also
\* after a reload.
C3_StartupGate ==
  \A k \in DOMAIN onCandleLog :
    \A i \in 1..Len(onCandleLog[k]) :
      <<k[2], k[3]>> \in DOMAIN engineStartTs =>
        normalize_candle_ts(onCandleLog[k][i].ts) > engineStartTs[<<k[2], k[3]>>]

\* after a completed reload, the candle right after the startup bar has been
\* passed to on_candle
C3_Witness ==
  /\ counts.reloads = 1 /\ reload = "idle"
  /\ \E k \in DOMAIN onCandleLog :
       /\ <<k[2], k[3]>> \in DOMAIN engineStartTs
       /\ \E i \in 1..Len(onCandleLog[k]) :
            /\ onCandleLog[k][i].ts.seconds = engineStartTs[<<k[2], k[3]>>] + 1
            /\ onCandleLog[k][i].call = 3

\* C4: after a signal for (strategy, symbol) at time t no further signal for
\* that (strategy, symbol) is emitted before t + cooldown_minutes: with the
\* 2-minute cooldown of the scenario, any two persisted signals of one
\* (strategy, symbol) lie at least 2 minutes apart.
C4_CooldownBetweenSignals ==
  \A r1 \in signals, r2 \in signals :
    /\ r1.idempotency_key # r2.idempotency_key
    /\ r1.strategy_id = r2.strategy_id
    /\ r1.symbol = r2.symbol
    /\ r1.at <= r2.at
    => r2.at - r1.at >= 2

\* C5: a stream with non-empty strategy_ids yields no signal of another
\* strategy, one with non-empty symbols yields no signal of another symbol,
\* and an empty list lets every signal through: what a stream yields is what
\* it took off its queue less the signals one of its non-empty lists excludes.
C5_SubscriberFilter ==
  \A n \in DOMAIN streams :
    LET st == streams[n]
        wanted(m) ==
          /\ (st.strategy_ids # {} => m.strategy_id \in st.strategy_ids)
          /\ (st.symbols # {} => m.symbol \in st.symbols)
    IN /\ \A i \in 1..Len(st.yielded) : wanted(st.yielded[i])
       /\ Len(st.yielded) = Cardinality({i \in 1..Len(st.taken) : wanted(st.taken[i])})

\* a stream filtering on both lists has taken an emit_signal broadcast and a
\* PublishSignal injection off its queue and yielded one of the two
C5_Witness ==
  \E n \in DOMAIN streams :
    /\ streams[n].strategy_ids # {} /\ streams[n].symbols # {}
    /\ Len(streams[n].taken) = 2 /\ Len(streams[n].yielded) = 1
    /\ \E i, j \in 1..2 : /\ streams[n].taken[i].src = NoKey
                          /\ streams[n].taken[j].src # NoKey

C7_IdempotencyKeyStable ==
  /\ \A m \in Delivered :
       m.src # NoKey => m.signal_id = m.src /\ m.trace_key = m.src
  /\ \A o \in orders :
       o.src # NoKey => o.signal_id = o.src /\ o.trace_key = o.src

\* C8: once on_candle of a built-in strategy has returned an entry for a
\* symbol, it returns no second entry for that symbol before it has returned
\* an exit for it.
C8_NoSecondEntryInPosition ==
  \A i \in 1..Len(returned), j \in 1..Len(returned) :
    /\ i < j
    /\ returned[i].symbol = returned[j].symbol
    /\ IsEntry(returned[i]) /\ IsEntry(returned[j])
    => \E k \in (i + 1)..(j - 1) :
         returned[k].symbol = returned[i].symbol /\ IsExit(returned[k])

\* every on_candle invocation of process_candle call c, over all keys
CallEntries(c) ==
  {e \in UNION {SeqRange(onCandleLog[k]) : k \in DOMAIN onCandleLog} : e.call = c}

\* C9: one process_candle call yields at most one signal; it comes from the
\* first strategy in registration order whose on_candle returns non-null
\* (every invocation before it returned null), no strategy after it is
\* invoked, and at most one signal of the call is persisted or forwarded.
C9_OneSignalPerCall ==
  \A c \in 1..counts.candles :
    /\ \A e1 \in CallEntries(c), e2 \in CallEntries(c) :
         e1.side # "none" => e2.idx <= e1.idx /\ (e2.side # "none" => e2 = e1)
    /\ Cardinality({r \in signals : r.call = c}) <= 1
    /\ \A r \in signals :
         r.call = c =>
           \E e \in CallEntries(c) :
             /\ e.side \in {"long", "short", "flat"}
             /\ r.signal_type = (IF e.side = "long" THEN "LONG"
                                 ELSE IF e.side = "short" THEN "SHORT" ELSE "FLAT")
             /\ strategies[e.idx] = r.strategy_id
    /\ Cardinality({o \in orders :
          \E r \in signals : r.call = c /\ r.idempotency_key = o.src}) <= 1

\* the first registered strategy signalled on a BTC 5m candle that the second
\* one, registered for it too, had not seen; the call is over and the second
\* was not invoked
C9_Witness ==
  \E i \in 1..Len(LogOf(Key("A", "BTC", "5m"))) :
    LET e == LogOf(Key("A", "BTC", "5m"))[i] IN
    /\ e.side # "none"
    /\ task["5m"].pc = "idle"
    /\ Get(last_candle_ts, Key("B", "BTC", "5m"), NoTs) < e.ts.seconds
    /\ \E r \in signals : r.call = e.call

\* C10: last_candle_ts[key] never decreases: every step keeps every key and
\* leaves its value equal or larger.
C10_LastCandleTsMonotonic ==
  [][\A k \in DOMAIN last_candle_ts :
       /\ k \in DOMAIN last_candle_ts'
       /\ last_candle_ts'[k] >= last_candle_ts[k]]_vars

\* a reload has completed with recorded candle timestamps in place, and a
\* later candle has advanced one of them
C10_Witness ==
  /\ counts.reloads = 1 /\ reload = "idle"
  /\ \E k \in DOMAIN last_candle_ts :
       /\ last_candle_ts[k] >= 3
       /\ Len(LogOf(k)) >= 2

\* ---------------------------------------------------------------------------
\* Warm-up state after initialize() and after a completed reload
\* ---------------------------------------------------------------------------
\* the number of bars the last priming loop fetched for key k; 0 when it
\* fetched none for it (bars_needed was 0)
PrimedLen(k) ==
  LET keys == PrimeSeq(strategies, warmup_required)
      at == {n \in 1..Len(startupRun.lens) : n <= Len(keys) /\ keys[n] = k}
  IN IF at = {} THEN 0 ELSE startupRun.lens[CHOOSE n \in at : TRUE]

\* every declared key of a loaded strategy has both entries, and
\* warmup_required is the row's init_periods
WarmupEntriesLoaded ==
  \A k \in LoadedKeys(strategies) :
    /\ k \in DOMAIN warmup_required
    /\ k \in DOMAIN warmup_complete
    /\ warmup_required[k] = Row(k[1]).init_periods

\* reload_strategies returns in this step
ReloadCompletes == reload # "idle" /\ reload' = "idle"

\* warmup_complete is true exactly when init_periods is 0 or the last
\* priming fetched at least init_periods bars
WarmupExactlyFromInitHistory ==
  /\ WarmupEntriesLoaded
  /\ \A k \in LoadedKeys(strategies) :
       warmup_complete[k] <=>
         (warmup_required[k] = 0 \/ PrimedLen(k) >= warmup_required[k])

\* warmup_complete is true when init_periods is 0 or the last priming fetched
\* at least init_periods bars; where it is true without that, the catalog
\* holds at least init_periods bars for the key
WarmupFromInitHistoryOrCandle ==
  /\ WarmupEntriesLoaded
  /\ \A k \in LoadedKeys(strategies) :
       /\ (warmup_required[k] = 0 \/ PrimedLen(k) >= warmup_required[k])
            => warmup_complete[k]
       /\ warmup_complete[k]
            => \/ warmup_required[k] = 0
               \/ PrimedLen(k) >= warmup_required[k]
               \/ catalogBars[<<k[2], k[3]>>] >= warmup_required[k]

C12_OnCandleOnlyWithEnoughHistory ==
  \A k \in DOMAIN onCandleLog :
    \A i \in 1..Len(onCandleLog[k]) :
      Row(k[1]).init_periods > 0 => onCandleLog[k][i].hist >= Row(k[1]).init_periods

\* ---------------------------------------------------------------------------
\* Strategy loading and the trading mode
\* ---------------------------------------------------------------------------
\* C13: only rows of the engine's trading mode are loaded: every registered
\* strategy instance comes from a row whose mode is the engine's mode.
C13_OnlyRowsOfEngineModeLoaded ==
  \A i \in 1..Len(strategies) : Row(strategies[i]).mode = trading_mode

\* ---------------------------------------------------------------------------
\* The service as main() assembles it
\* ---------------------------------------------------------------------------
\* C14: every signal process_candle has produced and returned was handed to
\* the execution forwarder.
C14_EverySignalForwarded ==
  \A r \in signals : r.idempotency_key \in forwarded

\* ---------------------------------------------------------------------------
\* Exceptions inside process_candle
\* ---------------------------------------------------------------------------
\* C15: an exception of on_candle does not leave process_candle: no consumer
\* task ends because on_candle raised, and none is cancelled for it.
C15_OnCandleErrorContained ==
  \A t \in Timeframes : task[t].error # "on_candle"

\* C18: a failed history fetch skips only its candle: no consumer task ends
\* because _fetch_history raised, and none is cancelled for it.
C18_HistoryErrorContained ==
  \A t \in Timeframes : task[t].error # "fetch_history"

\* ---------------------------------------------------------------------------
\* Signals for a symbol without an instrument
\* ---------------------------------------------------------------------------
\* C16: a signal whose symbol has no instrument is dropped: whatever
\* process_candle handed to the forwarder or a subscriber queue received has
\* its row in the signals table.
C16_UnknownInstrumentSignalDropped ==
  /\ \A k \in forwarded : k \in SignalKeys
  /\ \A m \in Delivered : m.src # NoKey => m.src \in SignalKeys

\* ---------------------------------------------------------------------------
\* Failures of the signal-store write and of the forwarder
\* ---------------------------------------------------------------------------
\* C17: when the write of a signal fails with a database error, the signal is
\* not handed to the forwarder and no subscriber queue receives it, in the
\* step the write fails and ever after.
C17_FailedWriteNotForwardedNorBroadcast ==
  /\ [](\A t \in Timeframes :
          task[t].error = "persist" =>
            /\ task[t].sig.idempotency_key \notin forwarded
            /\ \A m \in Delivered : m.src # task[t].sig.idempotency_key)
  /\ [][\A t \in Timeframes :
          (task[t].pc = "persist" /\ task'[t].pc # "persist" /\ signals' = signals)
            => /\ forwarded' = forwarded
               /\ orders' = orders
               /\ subscribers' = subscribers]_vars

\* the write of one signal has failed after another signal was persisted,
\* forwarded and delivered to the subscriber
C17_Witness ==
  /\ \E t \in Timeframes :
       task[t].error = "persist" /\ task[t].sig.idempotency_key # NoKey
  /\ forwarded # {}
  /\ \E m \in Delivered : m.src \in forwarded

C20_PermanentErrorFailsFast ==
  \A t \in Timeframes :
    (\E i \in 1..Len(ex[t].codes) : ex[t].codes[i] \in PermanentErrors)
      => /\ ex[t].pc = "failed"
         /\ ex[t].attempts = 1
         /\ ex[t].waits = <<>>

\* ---------------------------------------------------------------------------
\* The subscriber hub under slow subscribers
\* ---------------------------------------------------------------------------
\* C21: a broadcast completes whatever the subscribers have left undelivered:
\* in the step of a PublishSignal or emit_signal call every subscriber queue,
\* empty or not, has the signal appended.
C21_BroadcastNeverWaits ==
  [][counts'.publishes = counts.publishes + 1 =>
       /\ Len(subscribers') = Len(subscribers)
       /\ \A i \in 1..Len(subscribers) :
            /\ Len(subscribers'[i].queue) = Len(subscribers[i].queue) + 1
            /\ SubSeq(subscribers'[i].queue, 1, Len(subscribers[i].queue))
                 = subscribers[i].queue]_vars

\* two subscribers that have taken nothing off their queues hold two
\* broadcast signals each
C21_Witness ==
  /\ Len(subscribers) = 2
  /\ \A i \in 1..2 :
       /\ Len(subscribers[i].queue) = 2
       /\ streams[subscribers[i].stream].taken = <<>>

\* C22: a subscriber queue never holds more signals than its bound.
C22_QueueBounded ==
  \A i \in 1..Len(subscribers) : Len(subscribers[i].queue) <= QueueBound

\* ---------------------------------------------------------------------------
\* Lifetime of a subscription entry
\* ---------------------------------------------------------------------------
\* the streams that have an entry in the subscriber list
Subscribed == {subscribers[i].stream : i \in 1..Len(subscribers)}

\* C23: a stream has its entry from the start of StreamSignals for as long as
\* it is live; the step that starts it appends the entry; once it has ended,
\* been cancelled or lost its client the handler removes the entry, and a
\* removed entry does not come back.
C23_EntryWhileStreamLive ==
  /\ [](\A n \in DOMAIN streams : streams[n].live => n \in Subscribed)
  /\ [][\A n \in DOMAIN streams :
          (~streams[n].live /\ n \notin Subscribed) => n \notin Subscribed']_vars
  /\ \A n \in 1..MaxSubs :
       [](n \in DOMAIN streams /\ ~streams[n].live => <>(n \notin Subscribed))

\* of two streams one has ended and lost its entry, the other is live and
\* keeps its own
C23_Witness ==
  \E n \in DOMAIN streams, m \in DOMAIN streams :
    /\ ~streams[n].live /\ n \notin Subscribed
    /\ streams[m].live /\ m \in Subscribed

\* ---------------------------------------------------------------------------
\* A reload while process_candle is suspended
\* ---------------------------------------------------------------------------
\* C24: a process_candle call that a reload overtakes at one of its awaits
\* finishes without error: the loop over the strategies never fails because
\* the registry changed under it.
C24_InFlightCallSurvivesReload ==
  \A t \in Timeframes : task[t].error # "RuntimeError"

\* ---------------------------------------------------------------------------
\* Startup and shutdown of main()
\* ---------------------------------------------------------------------------
\* the rows of the registered strategies
RegisteredRows == {CatalogRow(mainRun.catalog, id) : id \in SeqRange(strategies)}

\* some registered strategy declares the timeframe and the symbol
Declared(tf, sym) ==
  \E row \in RegisteredRows : tf \in row.timeframes /\ sym \in row.symbols

NoDuplicates(q) == \A i, j \in 1..Len(q) : q[i] = q[j] => i = j

\* C25: get_required_subscriptions lists under a timeframe exactly the
\* symbols that some registered strategy declares together with it, each
\* once, and has a timeframe exactly when some registered strategy declares
\* one; when it is empty main() fails with no server started and no task
\* created, and otherwise main() works with this result.
C25_SubscriptionsExactlyDeclared ==
  LET subs == get_required_subscriptions(mainRun.catalog, strategies) IN
  mainRun.pc \notin {"new", "initialized"} =>
    /\ \A tf \in Timeframes, sym \in Symbols :
         (tf \in DOMAIN subs /\ sym \in SeqRange(subs[tf])) <=> Declared(tf, sym)
    /\ \A tf \in DOMAIN subs : NoDuplicates(subs[tf])
    /\ DOMAIN subs = UNION {row.timeframes : row \in RegisteredRows}
    /\ mainRun.pc = "failed" <=> DOMAIN subs = {}
    /\ mainRun.pc = "failed" => mainRun.server = "none" /\ mainRun.tasks = EmptyDict
    /\ mainRun.pc # "failed" =>
         mainRun.subscriptions = subs /\ DOMAIN mainRun.tasks = DOMAIN subs

\* two strategies share a timeframe and declare different symbols for it:
\* main() serves it with both
C25_Witness ==
  /\ mainRun.pc = "serving"
  /\ Len(strategies) = 2
  /\ "5m" \in DOMAIN mainRun.subscriptions
  /\ Len(mainRun.subscriptions["5m"]) = 2
  /\ \A row \in RegisteredRows : "5m" \in row.timeframes /\ Cardinality(row.symbols) = 1

\* C26: after the load every active row with a registered name is registered
\* under its id with its warmup entries, and a row with an unknown name has
\* no entry in strategies, warmup_required or warmup_complete.
C26_UnknownRowSkipped ==
  mainRun.pc # "new" =>
    \A i \in 1..Len(mainRun.catalog) :
      LET row == mainRun.catalog[i] IN
      IF row.name \in StrategyNames
      THEN /\ row.id \in SeqRange(strategies)
           /\ RowKeys(row) \subseteq DOMAIN warmup_required
           /\ RowKeys(row) \subseteq DOMAIN warmup_complete
      ELSE /\ row.id \notin SeqRange(strategies)
           /\ \A k \in (DOMAIN warmup_required) \cup (DOMAIN warmup_complete) :
                k[1] # row.id

\* an unknown row comes first, a registered row with warmup entries follows
\* and is loaded
C26_Witness ==
  /\ mainRun.pc = "serving"
  /\ Len(mainRun.catalog) = 2
  /\ mainRun.catalog[1].name \notin StrategyNames
  /\ RowKeys(mainRun.catalog[1]) # {}
  /\ strategies = <<mainRun.catalog[2].id>>
  /\ DOMAIN warmup_required = RowKeys(mainRun.catalog[2])
  /\ DOMAIN warmup_required # {}

\* C27: when the server has been stopped every per-timeframe task is done
\* and has disconnected its upstream client, and the engine closes the
\* execution-service connection and the pool only after the server has been
\* stopped.
C27_ShutdownOrder ==
  /\ mainRun.server = "stopped" =>
       \A tf \in DOMAIN mainRun.tasks :
         /\ mainRun.tasks[tf].state \in TaskStates
         /\ mainRun.tasks[tf].client = "disconnected"
  /\ (mainRun.pool = "closed" \/ mainRun.exec = "disconnected") =>
       mainRun.server = "stopped"

\* main() has exited after one task failed and the other was cancelled; the
\* execution client and the pool are closed
C27_Witness ==
  /\ mainRun.pc = "exited"
  /\ mainRun.pool = "closed" /\ mainRun.exec = "disconnected"
  /\ \E tf \in DOMAIN mainRun.tasks : mainRun.tasks[tf].state = "cancelled"
  /\ \E tf \in DOMAIN mainRun.tasks : mainRun.tasks[tf].state = "failed"

\* ---------------------------------------------------------------------------
\* The history window
\* ---------------------------------------------------------------------------
\* task t is at its history fetch and this step invokes on_candle with the
\* window fetched
Evaluates(t) ==
  task[t].pc = "fetch" /\ task'[t] # task[t] /\ onCandleLog' # onCandleLog

\* C28: the history window of an on_candle invocation ends before the candle
\* being evaluated: its newest bar, if it has one, is strictly earlier than
\* the candle.
C28_HistoryBeforeCandle ==
  [][\A t \in Timeframes :
       Evaluates(t) =>
         LET c == task[t].candle
             key == Key(task[t].inst[1], c.symbol, c.timeframe)
             e == onCandleLog'[key][Len(onCandleLog'[key])]
             newest == fetch_history_newest(catalogLatest,
                                            <<c.symbol, c.timeframe>>, e.hist)
         IN newest # NoTs => newest < normalize_candle_ts(c.ts)]_vars

\* ---------------------------------------------------------------------------
\* Exit signals and the session window of the strategies
\* ---------------------------------------------------------------------------
\* C29: an on_candle call that closes a position returns a signal with the
\* side opposite to the position's side and a non-empty exit_reason.
C29_ExitCarriesOppositeSide ==
  [][\A inst \in DOMAIN position, k \in PosKeys :
       (position[inst][k].side \in {"long", "short"}
          /\ position'[inst][k].side = "flat") =>
         /\ Len(returned') = Len(returned) + 1
         /\ returned'[Len(returned')].side = Opposite(position[inst][k].side)
         /\ returned'[Len(returned')].exit_reason # ""]_vars

\* candles of the 5m stream that lie outside the session window
OutsideCandles ==
  {c \in [symbol : Symbols, timeframe : {"5m"}, ts : RawTs, close : Closes] :
     ~InSessionWindow(normalize_candle_ts(c.ts))}

\* C30: for a strategy with a session window, a candle outside the window
\* gets no further than the engine's session gate: last_candle_ts never takes
\* its timestamp, no history is fetched and on_candle is not invoked for it;
\* and on_candle itself, in whatever position the instance is, returns null
\* for such a candle and keeps its position.
C30_OutsideSessionNoSignal ==
  /\ \A k \in DOMAIN last_candle_ts :
       HasSessionWindow(Row(k[1]).name) => InSessionWindow(last_candle_ts[k])
  /\ \A k \in DOMAIN onCandleLog : \A i \in 1..Len(onCandleLog[k]) :
       HasSessionWindow(Row(k[1]).name) =>
         InSessionWindow(normalize_candle_ts(onCandleLog[k][i].ts))
  /\ \A t \in Timeframes :
       (task[t].pc # "idle" /\ HasSessionWindow(Row(task[t].inst[1]).name)) =>
         InSessionWindow(normalize_candle_ts(task[t].candle.ts))
  /\ \A inst \in DOMAIN position, c \in OutsideCandles, h \in {0, HistoryFloor},
        ind \in Inds :
       HasSessionWindow(Row(inst[1]).name) =>
         on_candle(Row(inst[1]).name, position[inst], c, h, ind)
           = NoSignal(position[inst])

\* a candle has been streamed and has left no trace: the session gate
\* stopped it for every strategy that declares its symbol and timeframe
C30_Witness ==
  /\ counts.candles = 1
  /\ last_candle_ts = EmptyDict
  /\ onCandleLog = EmptyDict
  /\ \A t \in Timeframes : task[t].pc = "idle"

\* ---------------------------------------------------------------------------
\* on_candle of the built-in strategies, called directly
\* ---------------------------------------------------------------------------
\* the candles a direct call can present
DirectCandles ==
  [symbol : Symbols, timeframe : {"5m"}, ts : RawTs, close : Prices]

\* history lengths short of the minimum the strategy declares
ShortHistLens(name) == {0, MinBars(name) - 1}

\* C31: in whatever position an instance is, on_candle with a history shorter
\* than the strategy's minimum returns null and leaves the position state as
\* it was.
C31_NullBelowMinBars ==
  \A inst \in DOMAIN position, c \in DirectCandles, ind \in Inds :
    \A h \in ShortHistLens(inst[1]) :
      on_candle(inst[1], position[inst], c, h, ind) = NoSignal(position[inst])

\* ---------------------------------------------------------------------------
\* The startup gate
\* ---------------------------------------------------------------------------
\* startup_latest_ts of a symbol and timeframe, NoTs when none was recorded
StartupTs(sym, tf) == Get(startup_latest_ts, <<sym, tf>>, NoTs)

\* no strategy has a recorded timestamp, a call in flight or an on_candle
\* invocation for a candle the startup gate rejects
NothingAtOrBeforeStartup ==
  /\ \A k \in DOMAIN last_candle_ts : last_candle_ts[k] > StartupTs(k[2], k[3])
  /\ \A k \in DOMAIN onCandleLog : \A i \in 1..Len(onCandleLog[k]) :
       normalize_candle_ts(onCandleLog[k][i].ts) > StartupTs(k[2], k[3])
  /\ \A t \in Timeframes :
       task[t].pc # "idle" =>
         normalize_candle_ts(task[t].candle.ts)
           > StartupTs(task[t].candle.symbol, task[t].candle.timeframe)

\* a candle newer than the startup timestamp and than every timestamp
\* recorded for its symbol and timeframe gets past the gates of a strategy
LaterCandlePasses ==
  \A c \in [symbol : Symbols, timeframe : {"5m"}, ts : RawTs, close : Closes] :
    LET cts == normalize_candle_ts(c.ts) IN
    (/\ InSessionWindow(cts)
     /\ cts > StartupTs(c.symbol, c.timeframe)
     /\ \A k \in DOMAIN last_candle_ts :
          (k[2] = c.symbol /\ k[3] = c.timeframe) => cts > last_candle_ts[k])
      => \A i \in 1..Len(strategies) :
           RoutingPasses(strategies[i], c) => Gates(strategies[i], c)

\* C32: a candle the startup gate rejects is never recorded in
\* last_candle_ts, never fetched for and never evaluated; the delivery of a
\* candle that no strategy takes changes no map of the engine and writes no
\* signal; and a later candle after the startup timestamp passes the
\* startup and de-duplication gates.
C32_StartupRejectedLeavesNoTrace ==
  /\ []NothingAtOrBeforeStartup
  /\ []LaterCandlePasses
  /\ [][(counts'.candles = counts.candles + 1 /\ task' = task) =>
          /\ UNCHANGED <<last_candle_ts, warmup_required, warmup_complete>>
          /\ UNCHANGED <<startup_latest_ts, position, onCandleLog>>
          /\ UNCHANGED <<signals, orders, subscribers>>]_vars

\* the first candle was rejected by the startup gate and left nothing; the
\* second, after the startup timestamp, was recorded and evaluated
C32_Witness ==
  /\ counts.candles = 2
  /\ \E k \in DOMAIN last_candle_ts :
       /\ last_candle_ts[k] = StartupTs(k[2], k[3]) + 1
       /\ Len(LogOf(k)) = 1
       /\ LogOf(k)[1].call = 2
  /\ \A k \in DOMAIN onCandleLog : \A i \in 1..Len(onCandleLog[k]) :
       onCandleLog[k][i].call = 2

\* ---------------------------------------------------------------------------
\* Forwarding and the consumer
\* ---------------------------------------------------------------------------
\* the ExecuteSignal call of consumer t is being attempted or is sleeping
\* before a retry
Forwarding(t) == ex[t].pc \in {"call", "sleep"}

\* C33: handing a signal to the execution forwarder does not hold
\* process_candle: while ExecuteSignal is being attempted or retried for the
\* signal of a stream, the consumer of that stream has the signal back, has
\* broadcast it and is free for the next candle.
C33_ForwardDoesNotBlock ==
  \A t \in Timeframes :
    (Forwarding(t) /\ task[t].pc # "direct") =>
      /\ task[t].pc = "idle"
      /\ \E tsig \in Delivered :
           tsig.signal_id = ex[t].order.signal_id

\* ---------------------------------------------------------------------------
\* Exits of the strategies that keep a position
\* ---------------------------------------------------------------------------
\* where an instance of strategy `name` keeps its position for symbol sym
PositionKey(name, sym) == IF name = "mtf_confluence" THEN "self" ELSE sym

\* the stop-loss test of strategy `name` on position p
StopHit(name, p, close) ==
  IF name = "mtf_confluence" THEN MtfStopHit(p, close)
  ELSE LowVolStopHit(p, close)

\* every history length a call can present
AllHistLens == HistLens \cup UNION {ShortHistLens(n) : n \in StrategyNames}

\* C34: while an instance is in position for a symbol, a candle of that
\* symbol that breaches the stop-loss makes on_candle return an exit signal
\* and leaves the instance flat for the symbol, at whatever time of day the
\* candle comes and however long the history is.
C34_ExitEvaluatedOnEveryCandle ==
  \A inst \in DOMAIN position, c \in DirectCandles, ind \in Inds :
    \A h \in AllHistLens :
      LET key == PositionKey(inst[1], c.symbol)
          p == position[inst][key]
          r == on_candle(inst[1], position[inst], c, h, ind)
      IN (p.side # "flat" /\ StopHit(inst[1], p, c.close)) =>
           (IsExit(r) /\ r.pos[key] = Flat)

\* the exit rule low_vol_momentum has to apply to position p on a candle:
\* the stop first, then the holding time, then the regime
LowVolExitDue(p, c, h, ind) ==
  IF LowVolStopHit(p, c.close) THEN "stop_loss"
  ELSE IF normalize_candle_ts(c.ts) - p.entry_ts >= MaxHoldTicks THEN "max_hold"
  ELSE IF VolRegime(h, ind) \notin {"unknown", "low"} THEN "regime_change"
  ELSE ""

MtfInstances == {inst \in DOMAIN position : inst[1] = "mtf_confluence"}

\* what the call just made returned
LastReturned == returned'[Len(returned')]

\* one on_candle call on an mtf_confluence instance: the position side and
\* entry price change with the signal returned and only with it
MtfPositionFollowsSignal(inst) ==
  LET before == position[inst]["self"]
      after == position'[inst]["self"]
      r == LastReturned
  IN /\ (r.side \in {"long", "short"}) <=>
          (before.side = "flat" /\ after.side # "flat")
     /\ (r.side \in {"long", "short"}) =>
          (after.side = r.side /\ after.entry_price \in Prices)
     /\ IsExit(r) <=> (before.side # "flat" /\ after.side = "flat")
     /\ IsExit(r) => after = Flat
     /\ (r.side = "none") <=> (position'[inst] = position[inst])

SignalCalls ==
  {<<k, i>> \in UNION {{<<k, i>> : i \in 1..Len(onCandleLog[k])} :
                        k \in DOMAIN onCandleLog} :
     onCandleLog[k][i].side # "none"}

\* C37: however often a candle (symbol, timeframe, timestamp) is delivered,
\* at most one signal is emitted for it across all registered strategies.
C37_OneSignalPerCandle ==
  \A a \in SignalCalls, b \in SignalCalls :
    (/\ a[1][2] = b[1][2]
     /\ a[1][3] = b[1][3]
     /\ onCandleLog[a[1]][a[2]].ts = onCandleLog[b[1]][b[2]].ts) => a = b

\* ---------------------------------------------------------------------------
\* What a subscriber receives
\* ---------------------------------------------------------------------------
\* the queue of stream n, empty once its entry is gone
QueueOf(n) ==
  IF n \in Subscribed
  THEN subscribers[CHOOSE i \in 1..Len(subscribers) : subscribers[i].stream = n].queue
  ELSE <<>>

\* what stream n has taken off its queue followed by what still waits there
ReceivedOrPending(n) == streams[n].taken \o QueueOf(n)

\* the signals of sequence q that the filter of stream n lets through
Matching(n, q) ==
  LET Test(m) == Matches(streams[n], m) IN SelectSeq(q, Test)

\* broadcasts are numbered by nextKey as they are made
BroadcastIds == 1..MaxPublish

\* stream n has been yielded the signal of broadcast k
Yielded(n, k) ==
  \E j \in 1..Len(streams[n].yielded) : streams[n].yielded[j].signal_id = k

\* the signal of broadcast k matches the filter of stream n and waits in its queue
Pending(n, k) ==
  \E j \in 1..Len(QueueOf(n)) :
    QueueOf(n)[j].signal_id = k /\ Matches(streams[n], QueueOf(n)[j])

\* C38: a subscriber is yielded the signals matching its filter in the
\* order of their broadcast and each at most once; its queue starts empty and
\* gains only the signal being broadcast, so nothing broadcast before its
\* subscription reaches it; and a matching signal in the queue of a stream
\* that stays live is eventually yielded.
C38_SubscriberDelivery ==
  /\ [](\A n \in DOMAIN streams :
          /\ streams[n].yielded = Matching(n, streams[n].taken)
          /\ \A a, b \in 1..Len(ReceivedOrPending(n)) :
               a < b => ReceivedOrPending(n)[a].signal_id
                          < ReceivedOrPending(n)[b].signal_id)
  /\ [][\A n \in DOMAIN streams' :
          IF n \notin DOMAIN streams
          THEN ReceivedOrPending(n)' = <<>>
          ELSE \/ ReceivedOrPending(n)' = ReceivedOrPending(n)
               \/ /\ Len(ReceivedOrPending(n)') = Len(ReceivedOrPending(n)) + 1
                  /\ SubSeq(ReceivedOrPending(n)', 1, Len(ReceivedOrPending(n)))
                       = ReceivedOrPending(n)
                  /\ ReceivedOrPending(n)'[Len(ReceivedOrPending(n)')].signal_id
                       = nextKey
                  /\ nextKey' = nextKey + 1
               \/ (n \in Subscribed /\ n \notin Subscribed')]_vars
  /\ \A n \in 1..MaxSubs, k \in BroadcastIds :
       [](n \in DOMAIN streams /\ Pending(n, k) =>
            <>(n \in DOMAIN streams /\ (Yielded(n, k) \/ ~streams[n].live)))

\* a stream subscribed before the first broadcast has been yielded both
\* broadcasts in their order, a stream subscribed after it only the second
C38_Witness ==
  \E n \in DOMAIN streams, m \in DOMAIN streams :
    /\ streams[n].live /\ streams[m].live
    /\ Len(streams[n].yielded) = 2
    /\ streams[n].yielded[1].signal_id = 1
    /\ streams[n].yielded[2].signal_id = 2
    /\ streams[m].taken = <<streams[n].yielded[2]>>
    /\ streams[m].yielded = streams[m].taken
    /\ QueueOf(m) = <<>>

\* ---------------------------------------------------------------------------
\* One instance, several symbols
\* ---------------------------------------------------------------------------
\* the calls before call i that returned an entry for symbol sym with no
\* exit for sym between them and call i
OpenEntries(sym, i) ==
  {j \in 1..(i - 1) :
     /\ IsEntry(returned[j]) /\ returned[j].symbol = sym
     /\ \A m \in (j + 1)..(i - 1) :
          ~(IsExit(returned[m]) /\ returned[m].symbol = sym)}

\* C39: a call for a candle of one symbol leaves the position the instance
\* keeps for every other symbol as it was; an exit is returned for a symbol
\* only when the instance entered on that symbol, and an entry on a symbol
\* is not held back by a position entered on another one.
C39_SymbolsIndependent ==
  /\ \A inst \in DOMAIN position, c \in DirectCandles, ind \in Inds :
       \A h \in AllHistLens, other \in Symbols \ {c.symbol} :
         on_candle(inst[1], position[inst], c, h, ind).pos[other]
           = position[inst][other]
  /\ \A i \in 1..Len(returned) :
       IsExit(returned[i]) => OpenEntries(returned[i].symbol, i) # {}
  /\ \A inst \in DOMAIN position, c \in DirectCandles, ind \in Inds :
       \A h \in AllHistLens :
         (OpenEntries(c.symbol, Len(returned) + 1) = {}
            /\ IsEntry(on_candle(inst[1], NoPositions, c, h, ind)))
           => IsEntry(on_candle(inst[1], position[inst], c, h, ind))

\* ---------------------------------------------------------------------------
\* Entries and exits across reloads
\* ---------------------------------------------------------------------------
\* the strategies that keep a position between calls
KeepsPosition(name) == name \in {"mtf_confluence", "low_vol_momentum"}

\* the strategy ids registered with such a strategy
AlternatingIds == {id \in RowIds : KeepsPosition(Row(id).name)}

\* C40: on a stream of one timeframe, in the signals the engine obtains for
\* the id of a position-keeping strategy and a symbol, an entry is not
\* followed by a second entry unless an exit lies between them, reloads
\* included.
C40_EntriesAlternateAcrossReload ==
  \A k \in DOMAIN onCandleLog :
    k[1] \in AlternatingIds =>
      \A i \in 1..Len(onCandleLog[k]), j \in 1..Len(onCandleLog[k]) :
        (i < j /\ IsEntry(onCandleLog[k][i]) /\ IsEntry(onCandleLog[k][j]))
          => \E m \in (i + 1)..(j - 1) : IsExit(onCandleLog[k][m])

====
